---- MODULE Spec2Model ----
(***************************************************************************)
(* A model of the request-serving core of the easyp HTTPS server:          *)
(* the path-security resolver and file server                               *)
(* (src/src/modules/secure_file_server_module.rs), the response builder    *)
(* and encoder (src/src/modules/http_response.rs) and the keep-alive       *)
(* policy (src/src/modules/connection_policy.rs).                          *)
(*                                                                         *)
(* Strings are sequences of atoms.  An atom is one character ("/", ".",    *)
(* "?"), one percent-escape ("%2e") or an indivisible run of characters    *)
(* that holds none of '/', '.', '%', '?', '#' ("index", "html").           *)
(***************************************************************************)
EXTENDS Integers, Sequences, FiniteSets, TLC

VARIABLES
    config,         \* SecurityConfig of the SecureFileServer
    pc,             \* position inside serve_file_with_domain
    request,        \* [path, domain]: the arguments of the call in progress
    document_root,  \* the local `document_root` of the call in progress
    file_path,      \* the Ok value of sanitize_path_with_root, or NoPath
    sanitized,      \* "none" | "Ok" | "Err": what sanitize_path_with_root returned
    result,         \* the value returned to the caller
    via,            \* the branch that produced `result`
    served,         \* real location of the file whose bytes were read, or NoPath
    fsops,          \* the filesystem operations performed for this call, in order
    cwd,            \* the working directory of the server process
    resp,           \* an HttpResponse under construction
    first_set,      \* the name of the header set first on resp ("" when none)
    wire,           \* the bytes HttpResponse::encode returned for resp
    encoded_as,     \* the (version, keep_alive) encode was called with
    policy,         \* a ConnectionPolicy
    call,           \* the arguments of the last should_keep_alive call
    keep_alive_decision,  \* what that call returned
    connection,     \* one client connection: [open, requests_handled]
    request_line,   \* the first line of a request
    http_version,   \* what HttpVersion::from_request_line returned for it
    cache_info,     \* a FileCacheInfo built by from_metadata
    other_info,     \* the FileCacheInfo of a second file
    conditional,    \* [if_modified_since, if_none_match] of a conditional request
    not_modified_decision,  \* what should_return_not_modified returned for it
    queried_type,   \* the argument of get_cache_duration
    cache_duration, \* what get_cache_duration returned for it
    client_request, \* a conditional request as the client composed it
    drop_to,        \* config.drop_to_uid and config.drop_to_gid
    process,        \* the real, effective and saved IDs of the server process
    drop_pc,        \* where drop_privileges stands
    drop_result,    \* "none" | "Ok" | "Err": what drop_privileges returned
    syscalls,       \* the setgid and setuid calls made, in order, with outcomes
    host,           \* the domain given to is_domain_safe / get_domain_document_root
    host_safe,      \* what is_domain_safe returned for it
    host_root,      \* what get_domain_document_root returned for it
    stats,          \* HourlyStatsCollector.stats: the stored hourly entries
    current_hour_requests,  \* HourlyStatsCollector.current_hour_requests
    clock,          \* SystemTime::now(), in seconds since the epoch
    recorded,       \* the clock readings at which record_request was called
    collector       \* where a collect_current_stats call stands, and its locals

serveVars == <<config, pc, request, document_root, file_path, sanitized,
               result, via, served, fsops, cwd>>

respVars == <<resp, first_set, wire, encoded_as>>
policyVars == <<policy, call, keep_alive_decision, connection>>

versionVars == <<request_line, http_version>>

cacheVars == <<cache_info, other_info, conditional, not_modified_decision,
               queried_type, cache_duration, client_request>>

privVars == <<drop_to, process, drop_pc, drop_result, syscalls>>

domainVars == <<host, host_safe, host_root>>

statsVars == <<stats, current_hour_requests, clock, recorded, collector>>

vars == <<serveVars, respVars, policyVars, versionVars, cacheVars, privVars,
          domainVars, statsVars>>

\* What the actions of one part leave alone
notServeVars == <<respVars, policyVars, versionVars, cacheVars, privVars, domainVars, statsVars>>
notRespVars == <<serveVars, policyVars, versionVars, cacheVars, privVars, domainVars, statsVars>>
notPolicyVars == <<serveVars, respVars, versionVars, cacheVars, privVars, domainVars, statsVars>>
notVersionVars == <<serveVars, respVars, policyVars, cacheVars, privVars, domainVars, statsVars>>
notCacheVars == <<serveVars, respVars, policyVars, versionVars, privVars, domainVars, statsVars>>
notPrivVars == <<serveVars, respVars, policyVars, versionVars, cacheVars,
                 domainVars, statsVars>>
notDomainVars == <<serveVars, respVars, policyVars, versionVars, cacheVars, privVars,
                   statsVars>>
notStatsVars == <<serveVars, respVars, policyVars, versionVars, cacheVars, privVars,
                  domainVars>>

-----------------------------------------------------------------------------
(* Bounds: the segments of a request target, and the entries of a header   *)
(* map.                                                                    *)
MaxSegs == 2
MaxHeaders == 4

-----------------------------------------------------------------------------
(* String helpers.                                                         *)

Dot == <<".">>
DotDot == <<".", ".">>
IndexHtml == <<"index", ".", "html">>
IndexHtm == <<"index", ".", "htm">>

\* str::contains
Contains(s, pat) ==
    \E i \in 1..(Len(s) - Len(pat) + 1) : SubSeq(s, i, i + Len(pat) - 1) = pat

\* str::find: the index of the first occurrence of pat in s, 0 for None
Find(s, pat) ==
    IF Contains(s, pat)
    THEN CHOOSE i \in 1..(Len(s) - Len(pat) + 1) :
            /\ SubSeq(s, i, i + Len(pat) - 1) = pat
            /\ \A j \in 1..(i - 1) : SubSeq(s, j, j + Len(pat) - 1) # pat
    ELSE 0

\* str::starts_with(&str)
StartsWithStr(s, pat) == Len(s) >= Len(pat) /\ SubSeq(s, 1, Len(pat)) = pat

\* str::ends_with(char)
EndsWith(s, c) == Len(s) > 0 /\ s[Len(s)] = c

\* str::starts_with(char)
StartsWith(s, c) == Len(s) > 0 /\ s[1] = c

RECURSIVE BeforeFirst(_, _)
\* s.split(c).next(): the part of s before the first c
BeforeFirst(s, c) ==
    IF s = <<>> \/ Head(s) = c THEN <<>>
    ELSE <<Head(s)>> \o BeforeFirst(Tail(s), c)

RECURSIVE SplitOn(_, _)
\* s.split(c): every piece, empty ones included
SplitOn(s, c) ==
    LET first == BeforeFirst(s, c) IN
    IF Len(first) = Len(s) THEN <<first>>
    ELSE <<first>> \o SplitOn(SubSeq(s, Len(first) + 2, Len(s)), c)

RECURSIVE TrimStartMatches(_, _)
\* str::trim_start_matches(char)
TrimStartMatches(s, c) ==
    IF s # <<>> /\ Head(s) = c THEN TrimStartMatches(Tail(s), c) ELSE s

RECURSIVE JoinWith(_, _)
\* the pieces joined by the separator atom
JoinWith(pieces, sep) ==
    IF pieces = <<>> THEN <<>>
    ELSE IF Len(pieces) = 1 THEN pieces[1]
    ELSE pieces[1] \o <<sep>> \o JoinWith(Tail(pieces), sep)

\* urlencoding::decode: every escape becomes the byte it names, and the bytes
\* must form valid UTF-8 ("%ff" names the byte 0xFF, which never does).
DecodeAtom(a) ==
    CASE a = "%2e" -> "."
      [] a = "%2f" -> "/"
      [] OTHER -> a

urlencoding_decode(s) ==
    IF \E i \in 1..Len(s) : s[i] = "%ff"
    THEN [ok |-> FALSE, val |-> <<>>]
    ELSE [ok |-> TRUE, val |-> [i \in 1..Len(s) |-> DecodeAtom(s[i])]]

-----------------------------------------------------------------------------
(* std::path on Unix.  A PathBuf is [abs, comps]: whether it starts at the *)
(* root, and its components (each a string; ".." may be one of them).      *)

NoPath == [abs |-> FALSE, comps |-> << <<"<none>">> >>]
EmptyPath == [abs |-> FALSE, comps |-> <<>>]

NonEmpty(segs) == SelectSeq(segs, LAMBDA x : x # <<>>)

\* Path::components(): RootDir first when the path is absolute; empty
\* segments and '.' segments are dropped, except a '.' that starts a relative
\* path (CurDir); '..' is ParentDir; everything else is Normal.
Components(s) ==
    LET has_root == StartsWith(s, "/")
        segs == NonEmpty(SplitOn(s, "/"))
        Comp(i) ==
            IF segs[i] = Dot
            THEN [kind |-> IF i = 1 /\ ~has_root THEN "CurDir" ELSE "Skip",
                  name |-> Dot]
            ELSE IF segs[i] = DotDot
            THEN [kind |-> "ParentDir", name |-> DotDot]
            ELSE [kind |-> "Normal", name |-> segs[i]]
        all == [i \in 1..Len(segs) |-> Comp(i)]
    IN  (IF has_root THEN << [kind |-> "RootDir", name |-> <<"/">>] >> ELSE <<>>)
        \o SelectSeq(all, LAMBDA c : c.kind # "Skip")

\* PathBuf::push of one Normal component
Push(p, name) == [abs |-> p.abs, comps |-> Append(p.comps, name)]

\* PathBuf::join of a relative string: its segments are appended as written
\* ('.' and '..' included: the operating system resolves them)
Join(p, s) == [abs |-> p.abs, comps |-> p.comps \o NonEmpty(SplitOn(s, "/"))]

\* Path::starts_with: component-wise prefix
PathStartsWith(p, base) ==
    /\ p.abs = base.abs
    /\ Len(base.comps) <= Len(p.comps)
    /\ SubSeq(p.comps, 1, Len(base.comps)) = base.comps

\* Path::extension: the part of the file name after its last '.', none when
\* the name has no '.' or only a leading one
NoExt == <<"<none>">>
Extension(p) ==
    IF p.comps = <<>> THEN NoExt
    ELSE LET name == p.comps[Len(p.comps)]
             dots == {i \in 2..Len(name) : name[i] = "."}
             last == CHOOSE i \in dots : \A j \in dots : j <= i
         IN  IF name = DotDot \/ dots = {} THEN NoExt
             ELSE SubSeq(name, last + 1, Len(name))

\* str::to_lowercase on an extension
UpperLetters == <<"A", "C", "E", "I", "K", "L", "O", "P", "S", "U", "V">>
LowerLetters == <<"a", "c", "e", "i", "k", "l", "o", "p", "s", "u", "v">>

\* An atom in lower case: a letter, or a run of letters
LowerAtom(a) ==
    IF a = "EXE" THEN "exe"
    ELSE IF \E i \in 1..Len(UpperLetters) : UpperLetters[i] = a
    THEN LowerLetters[CHOOSE i \in 1..Len(UpperLetters) : UpperLetters[i] = a]
    ELSE a
ToLowercase(s) == [i \in 1..Len(s) |-> LowerAtom(s[i])]

-----------------------------------------------------------------------------
(* The filesystem the server runs on.  A node is named by its real path    *)
(* (a sequence of names from the root); stat-like calls resolve '.', '..'  *)
(* and symbolic links the way the kernel does.                             *)

Dir(p) == [path |-> p, kind |-> "dir", size |-> 0, content |-> <<>>, target |-> <<>>]
RegularFile(p, n, c) ==
    [path |-> p, kind |-> "file", size |-> n, content |-> c, target |-> <<>>]
Symlink(p, t) ==
    [path |-> p, kind |-> "symlink", size |-> 0, content |-> <<>>, target |-> t]
NoNode == [path |-> <<>>, kind |-> "none", size |-> 0, content |-> <<>>, target |-> <<>>]

VarWww == << <<"var">>, <<"www">> >>
Html == VarWww \o << <<"html">> >>
DomainAB == VarWww \o << <<"a", ".", "b">> >>

FS == {
    Dir(<<>>),
    Dir(<< <<"etc">> >>),
    RegularFile(<< <<"etc">>, <<"passwd">> >>, 3, <<"root:x:0:0">>),
    Dir(<< <<"var">> >>),
    Dir(VarWww),
    RegularFile(VarWww \o <<IndexHtml>>, 2, <<"outside-index">>),
    Dir(Html),
    RegularFile(Html \o <<IndexHtml>>, 4, <<"home">>),
    Dir(Html \o << <<"a">> >>),
    RegularFile(Html \o << <<"a">>, IndexHtm >>, 5, <<"a-index">>),
    Dir(Html \o << <<"b">> >>),
    RegularFile(Html \o << <<"b">>, IndexHtml >>, 500, <<"b-huge-index">>),
    Dir(Html \o << <<".", "git">> >>),
    RegularFile(Html \o << <<".", "git">>, IndexHtml >>, 6, <<"git-index">>),
    RegularFile(Html \o << <<"x", ".", "EXE">> >>, 7, <<"MZ">>),
    RegularFile(Html \o << <<"style", ".", "css">> >>, 9, <<"body{}">>),
    RegularFile(Html \o << <<"notes">> >>, 9, <<"notes">>),
    Symlink(Html \o << <<"link">> >>, << <<"etc">>, <<"passwd">> >>),
    Symlink(Html \o << <<"h">> >>, Html \o << <<".", "git">> >>),
    Dir(DomainAB),
    RegularFile(DomainAB \o <<IndexHtml>>, 8, <<"ab-home">>)
}

Lookup(p) ==
    IF \E n \in FS : n.path = p THEN CHOOSE n \in FS : n.path = p ELSE NoNode

ENOENT == << <<"<enoent>">> >>

Parent(p) == IF p = <<>> THEN <<>> ELSE SubSeq(p, 1, Len(p) - 1)

RECURSIVE Walk(_, _)
\* Path resolution from the directory `cur` (a real path): the real path of
\* the node reached, or ENOENT.  Symbolic links are followed.
Walk(cur, rest) ==
    IF cur = ENOENT \/ rest = <<>> THEN cur
    ELSE IF Lookup(cur).kind # "dir" THEN ENOENT
    ELSE LET c == Head(rest) IN
         IF c = DotDot THEN Walk(Parent(cur), Tail(rest))
         ELSE IF c = Dot THEN Walk(cur, Tail(rest))
         ELSE LET n == Lookup(Append(cur, c)) IN
              IF n.kind = "none" THEN ENOENT
              ELSE IF n.kind = "symlink" THEN Walk(n.target, Tail(rest))
              ELSE Walk(n.path, Tail(rest))

\* The node a path names for stat(2), open(2) and realpath(3)
RealPath(p, wd) == Walk(IF p.abs THEN <<>> ELSE wd, p.comps)
Stat(p, wd) == Lookup(RealPath(p, wd))

PathExists(p, wd) == RealPath(p, wd) # ENOENT
IsDir(p, wd) == PathExists(p, wd) /\ Stat(p, wd).kind = "dir"
IsFile(p, wd) == PathExists(p, wd) /\ Stat(p, wd).kind = "file"

\* metadata.modified() of the node at a real path, in seconds since the epoch
ModifiedTime(real) ==
    IF real = Html \o << <<"style", ".", "css">> >> THEN 1445412480
    ELSE IF real = Html \o <<IndexHtml>> THEN 86399
    ELSE 31536000 + 59 * 86400

\* One filesystem operation, as recorded in fsops
FsOp(op, p, from_target) == [op |-> op, path |-> p, from_target |-> from_target]
RejectEvent == [op |-> "reject", path |-> NoPath, from_target |-> FALSE]

-----------------------------------------------------------------------------
(* SecurityConfig and the per-domain document roots.                       *)

NoDomain == <<"<no domain>">>
DefaultRoot == [abs |-> TRUE, comps |-> Html]
PerDomainRoot == [abs |-> TRUE, comps |-> VarWww]

AlphanumericAtoms == {"a", "b", "html", "etc", "www"}

\* is_domain_safe without the test of the first and last character
is_domain_safe_NoEdgeCheck(domain) ==
    IF ~(\A i \in 1..Len(domain) : domain[i] \in AlphanumericAtoms \/ domain[i] = ".")
    THEN FALSE
    ELSE IF Contains(domain, DotDot) THEN FALSE
    ELSE IF ~Contains(domain, Dot) THEN FALSE
    ELSE IF Contains(domain, <<".", ".", ".">>) THEN FALSE
    ELSE TRUE

is_domain_safe(domain) ==
    IF ~(\A i \in 1..Len(domain) : domain[i] \in AlphanumericAtoms \/ domain[i] = ".")
    THEN FALSE
    ELSE IF Contains(domain, DotDot) THEN FALSE
    ELSE IF ~Contains(domain, Dot) THEN FALSE
    ELSE IF StartsWith(domain, ".") \/ EndsWith(domain, ".") THEN FALSE
    ELSE IF Contains(domain, <<".", ".", ".">>) THEN FALSE
    ELSE TRUE

\* get_domain_document_root that does not ask is_domain_safe
get_domain_document_root_Unchecked(cfg, domain, wd) ==
    LET domain_path == Join(PerDomainRoot, domain) IN
    IF PathExists(domain_path, wd) /\ IsDir(domain_path, wd)
    THEN [root |-> domain_path,
          ops |-> <<FsOp("exists", domain_path, FALSE),
                    FsOp("is_dir", domain_path, FALSE)>>]
    ELSE [root |-> cfg.document_root, ops |-> <<FsOp("exists", domain_path, FALSE)>>]

\* The path, and the filesystem operations made on the way
get_domain_document_root(cfg, domain, wd) ==
    LET domain_path == Join(PerDomainRoot, domain) IN
    IF is_domain_safe(domain)
    THEN IF PathExists(domain_path, wd) /\ IsDir(domain_path, wd)
         THEN [root |-> domain_path,
               ops |-> <<FsOp("exists", domain_path, FALSE),
                         FsOp("is_dir", domain_path, FALSE)>>]
         ELSE [root |-> cfg.document_root,
               ops |-> <<FsOp("exists", domain_path, FALSE)>>]
    ELSE [root |-> cfg.document_root, ops |-> <<>>]

\* `if let Some(domain) = domain { get_domain_document_root } else { default }`
SelectRoot(cfg, domain, wd) ==
    IF domain # NoDomain THEN get_domain_document_root(cfg, domain, wd)
    ELSE [root |-> cfg.document_root, ops |-> <<>>]

-----------------------------------------------------------------------------
(* SecureFileServer::sanitize_path_with_root.                              *)

SanitizeErr(msg, ops) == [ok |-> FALSE, path |-> NoPath, err |-> msg, ops |-> ops]
SanitizeOk(p, ops) == [ok |-> TRUE, path |-> p, err |-> "", ops |-> ops]

RECURSIVE WalkComponents_PopParent(_, _, _)
\* WalkComponents, had it resolved a ParentDir by dropping the last component
\* instead of rejecting it
WalkComponents_PopParent(comps, path_buf, root) ==
    IF comps = <<>> THEN [err |-> "", path_buf |-> path_buf]
    ELSE LET c == Head(comps) IN
         CASE c.kind = "Normal" ->
                IF StartsWith(c.name, ".") /\ c.name # Dot /\ c.name # DotDot
                THEN [err |-> "Access to hidden files/directories not allowed",
                      path_buf |-> path_buf]
                ELSE WalkComponents_PopParent(Tail(comps), Push(path_buf, c.name), root)
           [] c.kind = "RootDir" -> WalkComponents_PopParent(Tail(comps), root, root)
           [] c.kind = "CurDir" -> WalkComponents_PopParent(Tail(comps), path_buf, root)
           [] OTHER ->
                WalkComponents_PopParent(Tail(comps),
                    [abs |-> path_buf.abs, comps |-> Parent(path_buf.comps)], root)

RECURSIVE WalkComponents_NoHiddenCheck(_, _, _)
\* WalkComponents, had it not looked for a leading '.'
WalkComponents_NoHiddenCheck(comps, path_buf, root) ==
    IF comps = <<>> THEN [err |-> "", path_buf |-> path_buf]
    ELSE LET c == Head(comps) IN
         CASE c.kind = "Normal" ->
                IF c.name = DotDot \/ Contains(c.name, DotDot)
                THEN [err |-> "Directory traversal attack detected", path_buf |-> path_buf]
                ELSE WalkComponents_NoHiddenCheck(Tail(comps), Push(path_buf, c.name), root)
           [] c.kind = "RootDir" -> WalkComponents_NoHiddenCheck(Tail(comps), root, root)
           [] c.kind = "CurDir" -> WalkComponents_NoHiddenCheck(Tail(comps), path_buf, root)
           [] OTHER -> [err |-> "Invalid path component", path_buf |-> path_buf]

RECURSIVE WalkComponents(_, _, _)
\* The loop over Path::new(&path).components(): the accumulated path_buf,
\* or the error that ended the loop.
WalkComponents(comps, path_buf, root) ==
    IF comps = <<>> THEN [err |-> "", path_buf |-> path_buf]
    ELSE LET c == Head(comps) IN
         CASE c.kind = "Normal" ->
                IF c.name = DotDot \/ Contains(c.name, DotDot)
                THEN [err |-> "Directory traversal attack detected", path_buf |-> path_buf]
                ELSE IF StartsWith(c.name, ".") /\ c.name # Dot /\ c.name # DotDot
                THEN [err |-> "Access to hidden files/directories not allowed",
                      path_buf |-> path_buf]
                ELSE WalkComponents(Tail(comps), Push(path_buf, c.name), root)
           [] c.kind = "RootDir" -> WalkComponents(Tail(comps), root, root)
           [] c.kind = "CurDir" -> WalkComponents(Tail(comps), path_buf, root)
           [] OTHER -> [err |-> "Invalid path component", path_buf |-> path_buf]

\* The extension policy at the end of sanitize_path_with_root
ExtensionError(cfg, canonical_path) ==
    LET extension == ToLowercase(Extension(canonical_path)) IN
    IF Extension(canonical_path) = NoExt THEN ""
    ELSE IF extension \in cfg.blocked_extensions THEN "File type not allowed"
    ELSE IF cfg.allowed_extensions # {} /\ extension \notin cfg.allowed_extensions
    THEN "File type not in allowed list"
    ELSE ""

\* From the canonical path on: root containment, existence, kind, size and
\* extension.  `ops` are the filesystem operations made so far.
CheckCanonical(cfg, canonical_path, root, wd, ops) ==
    LET ops1 == Append(ops, FsOp("exists", canonical_path, TRUE))
        ops2 == Append(ops1, FsOp("is_file", canonical_path, TRUE))
        ops3 == Append(ops2, FsOp("metadata", canonical_path, TRUE))
    IN  IF ~PathStartsWith(canonical_path, root)
        THEN SanitizeErr("Path outside document root not allowed", ops)
        ELSE IF ~PathExists(canonical_path, wd)
        THEN SanitizeErr("File not found", ops1)
        ELSE IF ~IsFile(canonical_path, wd)
        THEN SanitizeErr("Path is not a file", ops2)
        ELSE IF Stat(canonical_path, wd).size > cfg.max_file_size
        THEN SanitizeErr("File too large", ops3)
        ELSE IF ExtensionError(cfg, canonical_path) # ""
        THEN SanitizeErr(ExtensionError(cfg, canonical_path), ops3)
        ELSE SanitizeOk(canonical_path, ops3)

\* index.html for the root, then canonicalization (fs::canonicalize when
\* follow_symlinks, a component-wise copy otherwise)
Canonicalize(cfg, walked, root, wd) ==
    LET path_buf == IF walked = EmptyPath \/ walked = root
                    THEN Push(walked, IndexHtml) ELSE walked
        real == RealPath(path_buf, wd)
    IN  IF cfg.follow_symlinks
        THEN IF real = ENOENT
             THEN SanitizeErr("canonicalize", <<FsOp("canonicalize", path_buf, TRUE)>>)
             ELSE CheckCanonical(cfg, [abs |-> TRUE, comps |-> real], root, wd,
                                 <<FsOp("canonicalize", path_buf, TRUE)>>)
        ELSE CheckCanonical(cfg, [abs |-> path_buf.abs, comps |-> path_buf.comps],
                            root, wd, <<>>)

sanitize_path_with_root(cfg, request_path, root, wd) ==
    LET path == BeforeFirst(BeforeFirst(request_path, "?"), "#")
        decoded == urlencoding_decode(path)
        walk == WalkComponents(Components(decoded.val), EmptyPath, root)
    IN  IF ~decoded.ok THEN SanitizeErr("invalid utf-8 in percent-encoding", <<>>)
        ELSE IF walk.err # "" THEN SanitizeErr(walk.err, <<>>)
        ELSE Canonicalize(cfg, walk.path_buf, root, wd)

-----------------------------------------------------------------------------
(* HttpResponse: the response value and its encoder.  The header map is a  *)
(* std::collections::HashMap: a function from names to values whose        *)
(* iteration order is whatever the hasher's random seed makes it.          *)

DigitAtom(d) ==
    CASE d = 0 -> "0" [] d = 1 -> "1" [] d = 2 -> "2" [] d = 3 -> "3" [] d = 4 -> "4"
      [] d = 5 -> "5" [] d = 6 -> "6" [] d = 7 -> "7" [] d = 8 -> "8" [] d = 9 -> "9"

RECURSIVE ToDigits(_)
\* Display for an unsigned integer: its decimal digits
ToDigits(n) ==
    IF n < 10 THEN <<DigitAtom(n)>>
    ELSE ToDigits(n \div 10) \o <<DigitAtom(n % 10)>>

HttpResponse_new(status_code, status_text, body) ==
    [status_code |-> status_code, status_text |-> status_text,
     headers |-> <<>>, body |-> body]

\* HashMap::insert: a new entry, or a new value for the entry of that name
set_header(r, name, value) ==
    [r EXCEPT !.headers =
        [k \in (DOMAIN r.headers) \cup {name} |->
            IF k = name THEN value ELSE r.headers[k]]]

moved_permanently(location) ==
    set_header(HttpResponse_new(301, "Moved Permanently", <<>>), "Location", location)

set_content_type(r, content_type) == set_header(r, "Content-Type", content_type)

set_content_length(r) == set_header(r, "Content-Length", ToDigits(Len(r.body)))

set_cache_control(r, cache_control) == set_header(r, "Cache-Control", cache_control)

set_last_modified(r, last_modified) == set_header(r, "Last-Modified", last_modified)

set_etag(r, etag) == set_header(r, "ETag", etag)

not_modified(last_modified, etag) ==
    set_etag(set_last_modified(HttpResponse_new(304, "Not Modified", <<>>),
                               last_modified), etag)

\* add_caching_headers that keeps a Cache-Control already set
add_caching_headers_KeepsCacheControl(r, last_modified, etag, cache_duration_seconds) ==
    LET r2 == set_etag(set_last_modified(r, last_modified), etag) IN
    IF "Cache-Control" \in DOMAIN r.headers THEN r2
    ELSE set_cache_control(r2, IF cache_duration_seconds = -1
                               THEN <<"public, max-age=">> \o ToDigits(31536000)
                                    \o <<", immutable">>
                               ELSE IF cache_duration_seconds = 0
                               THEN <<"no-cache, no-store, must-revalidate">>
                               ELSE IF cache_duration_seconds > 0
                               THEN <<"public, max-age=">>
                                    \o ToDigits(cache_duration_seconds)
                               ELSE <<"no-cache">>)

add_caching_headers(r, last_modified, etag, cache_duration_seconds) ==
    LET r2 == set_etag(set_last_modified(r, last_modified), etag) IN
    CASE cache_duration_seconds = -1 ->
            set_cache_control(r2, <<"public, max-age=">> \o ToDigits(31536000)
                                  \o <<", immutable">>)
      [] cache_duration_seconds = 0 ->
            set_cache_control(r2, <<"no-cache, no-store, must-revalidate">>)
      [] cache_duration_seconds > 0 ->
            set_cache_control(r2, <<"public, max-age=">>
                                  \o ToDigits(cache_duration_seconds))
      [] OTHER -> set_cache_control(r2, <<"no-cache">>)

add_security_headers_no_cache_override(r) ==
    set_header(set_header(set_header(r, "X-Content-Type-Options", <<"nosniff">>),
                          "X-Frame-Options", <<"DENY">>),
               "X-XSS-Protection", <<"1; mode=block">>)

add_security_headers(r) ==
    set_cache_control(add_security_headers_no_cache_override(r), <<"no-cache">>)

status_line_prefix(version) ==
    CASE version = "Http09" -> ""
      [] version = "Http10" -> "HTTP/1.0"
      [] version = "Http11" -> "HTTP/1.1"

\* The orders in which `for (name, value) in &self.headers` may visit a map
RECURSIVE Orders(_)
Orders(keys) ==
    IF keys = {} THEN { <<>> }
    ELSE UNION { { <<k>> \o o : o \in Orders(keys \ {k}) } : k \in keys }

IterationOrders(headers) == Orders(DOMAIN headers)

CRLF == <<"\r", "\n">>

RECURSIVE HeaderLines_SkipLast(_, _)
\* HeaderLines that leaves out the entry visited last
HeaderLines_SkipLast(headers, order) ==
    IF Len(order) <= 1 THEN <<>>
    ELSE <<Head(order), ":", " ">> \o headers[Head(order)] \o <<"\r", "\n">>
         \o HeaderLines_SkipLast(headers, Tail(order))

RECURSIVE HeaderLines(_, _)
\* `format!("{}: {}\r\n", name, value)` for each entry, in iteration order
HeaderLines(headers, order) ==
    IF order = <<>> THEN <<>>
    ELSE <<Head(order), ":", " ">> \o headers[Head(order)] \o CRLF
         \o HeaderLines(headers, Tail(order))

ConnectionDirective(version, keep_alive) ==
    CASE version = "Http11" ->
            IF ~keep_alive THEN <<"Connection", ":", " ", "close">> \o CRLF ELSE <<>>
      [] version = "Http10" ->
            IF keep_alive THEN <<"Connection", ":", " ", "Keep-Alive">> \o CRLF ELSE <<>>
      [] OTHER -> <<>>

\* encode without the early return for Http09
encode_NoEarlyReturn(r, version, keep_alive, order) ==
    <<status_line_prefix(version), " ">> \o ToDigits(r.status_code)
    \o <<" ", r.status_text>> \o CRLF
    \o HeaderLines(r.headers, order)
    \o ConnectionDirective(version, keep_alive)
    \o CRLF
    \o r.body

\* HttpResponse::encode, the header map iterated in `order`
encode(r, version, keep_alive, order) ==
    IF version = "Http09" THEN r.body
    ELSE <<status_line_prefix(version), " ">> \o ToDigits(r.status_code)
         \o <<" ", r.status_text>> \o CRLF
         \o HeaderLines(r.headers, order)
         \o ConnectionDirective(version, keep_alive)
         \o CRLF
         \o r.body

\* Bytes that are not valid UTF-8 on their own
InvalidUtf8 == {"\\xFF", "\\xFE"}

RECURSIVE from_utf8_lossy(_)
\* String::from_utf8_lossy: every invalid byte becomes U+FFFD (EF BF BD)
from_utf8_lossy(bytes) ==
    IF bytes = <<>> THEN <<>>
    ELSE (IF Head(bytes) \in InvalidUtf8 THEN <<"\\xEF", "\\xBF", "\\xBD">>
          ELSE <<Head(bytes)>>) \o from_utf8_lossy(Tail(bytes))

generate_redirect_response(location, version, keep_alive, order) ==
    from_utf8_lossy(encode(moved_permanently(location), version, keep_alive, order))

Charset == <<"; charset=utf-8">>

\* MimeTypes::default: extension to content type.  A content type is a
\* sequence of atoms: the top-level type with its '/', the subtype (after a
\* 'font-' atom where it has that prefix), then the parameters
MimeTypes_default ==
    [ html |-> <<"text/", "html">> \o Charset, htm |-> <<"text/", "html">> \o Charset,
      txt |-> <<"text/", "plain">> \o Charset, css |-> <<"text/", "css">> \o Charset,
      js |-> <<"application/", "javascript">> \o Charset,
      mjs |-> <<"application/", "javascript">> \o Charset,
      wasm |-> <<"application/", "wasm">>,
      jpg |-> <<"image/", "jpeg">>, jpeg |-> <<"image/", "jpeg">>,
      png |-> <<"image/", "png">>, gif |-> <<"image/", "gif">>,
      svg |-> <<"image/", "svg+xml">>, webp |-> <<"image/", "webp">>,
      ico |-> <<"image/", "x-icon">>, bmp |-> <<"image/", "bmp">>,
      woff |-> <<"font/", "woff">>, woff2 |-> <<"font/", "woff2">>,
      ttf |-> <<"font/", "ttf">>, otf |-> <<"font/", "otf">>,
      pdf |-> <<"application/", "pdf">>,
      json |-> <<"application/", "json">> \o Charset,
      xml |-> <<"application/", "xml">> \o Charset,
      zip |-> <<"application/", "zip">>, tar |-> <<"application/", "x-tar">>,
      gz |-> <<"application/", "gzip">>, tgz |-> <<"application/", "gzip">>,
      bin |-> <<"application/", "octet-stream">> ]

\* `{:02}`: at least two digits
Pad2(n) == IF n < 10 THEN <<"0">> \o ToDigits(n) ELSE ToDigits(n)

\* format_http_date, for a time in seconds relative to the epoch (a time
\* before it counts as the epoch)
format_http_date(time) ==
    LET timestamp == IF time < 0 THEN 0 ELSE time
        days_since_epoch == timestamp \div 86400
        seconds_today == timestamp % 86400
        hours == seconds_today \div 3600
        minutes == (seconds_today % 3600) \div 60
        seconds == seconds_today % 60
        year == 1970 + (days_since_epoch \div 365)
        day_of_year == (days_since_epoch % 365) + 1
        ends == <<31, 59, 90, 120, 151, 181, 212, 243, 273, 304, 334, 365>>
        month == CHOOSE m \in 1..12 :
                    /\ day_of_year <= ends[m]
                    /\ \A k \in 1..(m - 1) : day_of_year > ends[k]
        day_of_month == day_of_year - (IF month = 1 THEN 0 ELSE ends[month - 1])
        day_of_week == <<"Sun", "Mon", "Tue", "Wed", "Thu", "Fri", "Sat">>
                           [(days_since_epoch % 7) + 1]
        month_name == <<"Jan", "Feb", "Mar", "Apr", "May", "Jun", "Jul", "Aug",
                        "Sep", "Oct", "Nov", "Dec">>[month]
    IN  <<day_of_week, ",", " ">> \o Pad2(day_of_month) \o <<" ", month_name, " ">>
        \o ToDigits(year) \o <<" ">> \o Pad2(hours) \o <<":">> \o Pad2(minutes)
        \o <<":">> \o Pad2(seconds) \o <<" ", "GMT">>

\* MimeTypes::get_mime_type
get_mime_type(path) ==
    LET extension == ToLowercase(Extension(path)) IN
    IF Extension(path) # NoExt /\ Len(extension) = 1
       /\ extension[1] \in DOMAIN MimeTypes_default
    THEN MimeTypes_default[extension[1]]
    ELSE <<"application/", "octet-stream">>

\* The response generate_http_response_with_version builds for a file: content
\* type and length, Last-Modified, the security headers, then Cache-Control
\* by content type
file_response(mime_type, last_modified, content) ==
    LET r == add_security_headers(
                 set_last_modified(
                     set_content_length(
                         set_content_type(HttpResponse_new(200, "OK", content),
                                          mime_type)),
                     last_modified))
    IN  IF \/ StartsWithStr(mime_type, <<"image/">>)
           \/ StartsWithStr(mime_type, <<"text/", "css">>)
           \/ StartsWithStr(mime_type, <<"application/", "javascript">>)
           \/ StartsWithStr(mime_type, <<"application/", "wasm">>)
        THEN set_cache_control(r, <<"public, max-age=">> \o ToDigits(3600))
        ELSE set_cache_control(r, <<"no-cache">>)

\* generate_http_response_with_version from the result of
\* sanitize_path_with_root (`?` returns its Err) up to the call of encode
response_for(sane, content, wd) ==
    IF ~sane.ok
    THEN [ok |-> FALSE, path |-> NoPath, response |-> HttpResponse_new(0, "", <<>>)]
    ELSE [ok |-> TRUE, path |-> sane.path,
          response |-> file_response(
                           get_mime_type(sane.path),
                           format_http_date(ModifiedTime(RealPath(sane.path, wd))),
                           content)]

-----------------------------------------------------------------------------
(* SecureFileServer::serve_file_with_domain, step by step.                 *)

Pending == [tag |-> "Pending", bytes |-> <<>>]
None == [tag |-> "None", bytes |-> <<>>]
Some(b) == [tag |-> "Some", bytes |-> b]

\* check_redirect_with_domain: Some(redirect_url) or none, and the
\* filesystem operations made
check_redirect_with_domain(cfg, request_path, domain, wd) ==
    LET sel == SelectRoot(cfg, domain, wd)
        clean_path == TrimStartMatches(request_path, "/")
        joined == Join(sel.root, clean_path)
        ops == Append(sel.ops, FsOp("is_dir", joined, TRUE))
    IN  IF EndsWith(request_path, "/")
        THEN [redirect |-> FALSE, url |-> <<>>, ops |-> <<>>]
        ELSE IF IsDir(joined, wd)
        THEN [redirect |-> TRUE, url |-> request_path \o <<"/">>, ops |-> ops]
        ELSE [redirect |-> FALSE, url |-> <<>>, ops |-> ops]

Segments ==
    { DotDot, Dot, <<"%2e", "%2e">>, <<".", "git">>, <<"a">>, <<"b">>,
      IndexHtml, IndexHtm, <<"x", ".", "EXE">>, <<"link">>, <<"h">>, <<"%ff">>,
      <<"a", ".", ".", "b">> }

Suffixes == { <<>>, <<"/">>, <<"?", "/", ".", ".">> }

\* The request targets explored: up to MaxSegs segments joined by '/', with or
\* without a leading '/', then nothing, a trailing '/' or a query string
Targets ==
    { lead \o JoinWith(ss, "/") \o trail :
        lead \in { <<>>, <<"/">> },
        ss \in UNION { [1..n -> Segments] : n \in 0..MaxSegs },
        trail \in Suffixes }

\* serve_file_with_domain is given origin-form targets: they start with '/'
ServeTargets == { t \in Targets : StartsWith(t, "/") }

Domains == { NoDomain, <<"a", ".", "b">>, DotDot }

Configs ==
    { [document_root |-> DefaultRoot, follow_symlinks |-> f, max_file_size |-> 100,
       allowed_extensions |-> {}, blocked_extensions |-> { <<"exe">> }] :
      f \in BOOLEAN }

InitServe ==
    /\ config \in Configs
    /\ cwd \in { <<>>, Html }
    /\ pc = "idle"
    /\ request = [path |-> <<>>, domain |-> NoDomain]
    /\ document_root = NoPath
    /\ file_path = NoPath
    /\ sanitized = "none"
    /\ result = Pending
    /\ via = "none"
    /\ served = ENOENT
    /\ fsops = <<>>

NoRequestLine == [method |-> <<>>, target |-> <<>>, version_token |-> <<>>]

\* The version variables while from_request_line is not exercised
NoVersion ==
    /\ request_line = NoRequestLine
    /\ http_version = "none"

NoInfo == [last_modified |-> 0, size |-> 0, etag |-> <<>>]

NoClientRequest == [etag |-> <<>>, quoted |-> FALSE, space |-> <<>>, if_modified_since |-> <<>>]

\* The cache variables while file_cache is not exercised
NoCache ==
    /\ cache_info = NoInfo
    /\ other_info = NoInfo
    /\ conditional = [if_modified_since |-> [some |-> FALSE, value |-> <<>>],
                      if_none_match |-> [some |-> FALSE, value |-> <<>>]]
    /\ not_modified_decision = <<>>
    /\ queried_type = <<>>
    /\ cache_duration = <<>>
    /\ client_request = NoClientRequest

\* Option<u32>: <<>> for None, <<v>> for Some(v)
NoPrivileges ==
    /\ drop_to = [uid |-> <<>>, gid |-> <<>>]
    /\ process = [ruid |-> 0, euid |-> 0, suid |-> 0, rgid |-> 0, egid |-> 0, sgid |-> 0]
    /\ drop_pc = "idle"
    /\ drop_result = "none"
    /\ syscalls = <<>>

NoDomainCall ==
    /\ host = <<>>
    /\ host_safe = <<>>
    /\ host_root = NoPath

\* HourlyStatsCollector::new with no data file to load
\* collect_current_stats is not running; result is what its last call returned
IdleCollector(returned) ==
    [pc |-> "idle", current_hour |-> 0, request_count |-> 0, memory_used_mb |-> 0,
     result |-> returned]

NoStats ==
    /\ stats = <<>>
    /\ current_hour_requests = 0
    /\ clock = 0
    /\ recorded = <<>>
    /\ collector = IdleCollector("none")

\* ConnectionPolicy::default and ConnectionPolicy::new
ConnectionPolicy_default == [max_requests |-> 100, idle_timeout_seconds |-> 5]
ConnectionPolicy_new(max_requests, idle_timeout_seconds) ==
    [max_requests |-> max_requests, idle_timeout_seconds |-> idle_timeout_seconds]

NoCall == [version |-> "none"]

\* The policy variables while should_keep_alive is not exercised
\* No connection is being served
NoConnection == [open |-> FALSE, requests_handled |-> 0]

NoPolicy ==
    /\ policy = ConnectionPolicy_default
    /\ call = NoCall
    /\ keep_alive_decision = FALSE
    /\ connection = NoConnection

\* The response variables while no response is being built
NoResponse ==
    /\ resp = HttpResponse_new(0, "", <<>>)
    /\ first_set = ""
    /\ wire = <<>>
    /\ encoded_as = [version |-> "none", keep_alive |-> FALSE]

\* The file-server variables while only responses are built
NoServer ==
    /\ config \in { c \in Configs : ~c.follow_symlinks }
    /\ cwd = <<>>
    /\ pc = "idle"
    /\ request = [path |-> <<>>, domain |-> NoDomain]
    /\ document_root = NoPath
    /\ file_path = NoPath
    /\ sanitized = "none"
    /\ result = Pending
    /\ via = "none"
    /\ served = ENOENT
    /\ fsops = <<>>

\* A caller invokes serve_file_with_domain(path, domain)
ReceiveRequest ==
    /\ pc = "idle"
    /\ \E path \in ServeTargets, domain \in Domains :
          request' = [path |-> path, domain |-> domain]
    /\ pc' = "check_redirect"
    /\ UNCHANGED <<config, cwd, document_root, file_path, sanitized, result, via,
                   served, fsops>>
    /\ UNCHANGED notServeVars

\* `if let Some(redirect_url) = self.check_redirect_with_domain(..)`
CheckRedirect ==
    /\ pc = "check_redirect"
    /\ LET cr == check_redirect_with_domain(config, request.path, request.domain, cwd) IN
          /\ fsops' = fsops \o cr.ops
          /\ IF cr.redirect
             THEN /\ \E order \in IterationOrders(moved_permanently(cr.url).headers) :
                        result' = Some(generate_redirect_response(cr.url, "Http11",
                                                                  FALSE, order))
                  /\ via' = "redirect"
                  /\ pc' = "done"
             ELSE /\ pc' = "select_root"
                  /\ UNCHANGED <<result, via>>
    /\ UNCHANGED <<config, cwd, request, document_root, file_path, sanitized, served>>
    /\ UNCHANGED notServeVars

\* `let document_root = if let Some(domain) = domain { .. } else { .. }`
SelectDocumentRoot ==
    /\ pc = "select_root"
    /\ LET sel == SelectRoot(config, request.domain, cwd) IN
          /\ document_root' = sel.root
          /\ fsops' = fsops \o sel.ops
    /\ pc' = "dir_index"
    /\ UNCHANGED <<config, cwd, request, file_path, sanitized, result, via, served>>
    /\ UNCHANGED notServeVars

\* `if request_path.ends_with('/') { .. if dir_path.is_dir() { .. } }`
DirectoryIndex ==
    /\ pc = "dir_index"
    /\ LET clean_path == TrimStartMatches(request.path, "/")
           dir_path == Join(document_root, clean_path)
           index_html == Push(dir_path, IndexHtml)
           index_htm == Push(dir_path, IndexHtm)
           file_to_serve == IF PathExists(index_html, cwd) THEN index_html ELSE index_htm
           probes == <<FsOp("is_dir", dir_path, TRUE), FsOp("exists", index_html, TRUE)>>
                     \o (IF PathExists(index_html, cwd) THEN <<>>
                         ELSE <<FsOp("exists", index_htm, TRUE)>>)
       IN  IF ~EndsWith(request.path, "/")
           THEN /\ pc' = "sanitize"
                /\ UNCHANGED <<result, via, served, fsops>>
           ELSE IF ~IsDir(dir_path, cwd)
           THEN /\ pc' = "sanitize"
                /\ fsops' = Append(fsops, FsOp("is_dir", dir_path, TRUE))
                /\ UNCHANGED <<result, via, served>>
           ELSE IF ~PathExists(index_html, cwd) /\ ~PathExists(index_htm, cwd)
           THEN /\ pc' = "done"
                /\ result' = None
                /\ via' = "no_index"
                /\ fsops' = fsops \o probes
                /\ UNCHANGED served
           ELSE \E io_ok \in BOOLEAN :
                /\ pc' = "done"
                /\ fsops' = fsops \o probes
                              \o <<FsOp("open", file_to_serve, TRUE)>>
                              \o (IF io_ok THEN <<FsOp("read", file_to_serve, TRUE)>>
                                  ELSE <<>>)
                /\ IF io_ok /\ IsFile(file_to_serve, cwd)
                   THEN /\ result' = Some(Stat(file_to_serve, cwd).content)
                        /\ via' = "index"
                        /\ served' = RealPath(file_to_serve, cwd)
                   ELSE /\ result' = None
                        /\ via' = "io_error"
                        /\ UNCHANGED served
    /\ UNCHANGED <<config, cwd, request, document_root, file_path, sanitized>>
    /\ UNCHANGED notServeVars

\* `match self.sanitize_path_with_root(request_path, &document_root)`
SanitizePath ==
    /\ pc = "sanitize"
    /\ LET r == sanitize_path_with_root(config, request.path, document_root, cwd) IN
          /\ file_path' = r.path
          /\ IF r.ok
             THEN /\ sanitized' = "Ok"
                  /\ fsops' = fsops \o r.ops
                  /\ pc' = "read"
                  /\ UNCHANGED <<result, via>>
             ELSE /\ sanitized' = "Err"
                  /\ fsops' = fsops \o r.ops \o <<RejectEvent>>
                  /\ pc' = "done"
                  /\ result' = None
                  /\ via' = "rejected"
    /\ UNCHANGED <<config, cwd, request, document_root, served>>
    /\ UNCHANGED notServeVars

\* File::open and read_to_end on the sanitized path; either may fail
ReadFile ==
    /\ pc = "read"
    /\ \E io_ok \in BOOLEAN :
          /\ fsops' = fsops \o <<FsOp("open", file_path, TRUE)>>
                        \o (IF io_ok THEN <<FsOp("read", file_path, TRUE)>> ELSE <<>>)
          /\ IF io_ok
             THEN /\ result' = Some(Stat(file_path, cwd).content)
                  /\ via' = "file"
                  /\ served' = RealPath(file_path, cwd)
             ELSE /\ result' = None
                  /\ via' = "io_error"
                  /\ UNCHANGED served
    /\ pc' = "done"
    /\ UNCHANGED <<config, cwd, request, document_root, file_path, sanitized>>
    /\ UNCHANGED notServeVars

\* serve_file_with_domain returns `result` to its caller and its locals are
\* dropped
Return ==
    /\ pc = "done"
    /\ pc' = "idle"
    /\ request' = [path |-> <<>>, domain |-> NoDomain]
    /\ document_root' = NoPath
    /\ file_path' = NoPath
    /\ sanitized' = "none"
    /\ result' = Pending
    /\ via' = "none"
    /\ served' = ENOENT
    /\ fsops' = <<>>
    /\ UNCHANGED <<config, cwd>>
    /\ UNCHANGED notServeVars

NextServe ==
    \/ ReceiveRequest
    \/ CheckRedirect
    \/ SelectDocumentRoot
    \/ DirectoryIndex
    \/ SanitizePath
    \/ ReadFile
    \/ Return

\* sanitize_path / sanitize_path_with_root called on their own (they are
\* public; generate_http_response_with_version calls sanitize_path on the raw
\* request path)
CallSanitizePath ==
    /\ pc = "idle"
    /\ \E path \in Targets, root \in { DefaultRoot, [abs |-> TRUE, comps |-> DomainAB] } :
          /\ request' = [path |-> path, domain |-> NoDomain]
          /\ document_root' = root
    /\ pc' = "sanitize_direct"
    /\ UNCHANGED <<config, cwd, file_path, sanitized, result, via, served, fsops>>
    /\ UNCHANGED notServeVars

SanitizeDirect ==
    /\ pc = "sanitize_direct"
    /\ LET r == sanitize_path_with_root(config, request.path, document_root, cwd) IN
          /\ file_path' = r.path
          /\ sanitized' = IF r.ok THEN "Ok" ELSE "Err"
          /\ fsops' = r.ops
    /\ pc' = "done"
    /\ UNCHANGED <<config, cwd, request, document_root, result, via, served>>
    /\ UNCHANGED notServeVars

NextSanitize ==
    \/ CallSanitizePath
    \/ SanitizeDirect
    \/ Return

Init ==
    /\ InitServe /\ NoResponse /\ NoPolicy /\ NoVersion /\ NoCache /\ NoPrivileges
    /\ NoDomainCall /\ NoStats

Next == NextServe

\* Requests served through serve_file_with_domain
Spec == Init /\ [][Next]_vars

\* sanitize_path_with_root applied to every target
SpecSanitize == Init /\ [][NextSanitize]_vars

-----------------------------------------------------------------------------
(* Building and encoding one HttpResponse.                                 *)

HelloWorld == <<"H", "e", "l", "l", "o", " ", "W", "o", "r", "l", "d">>
Binary == <<"\\xFF", "\r", "\n", "\r", "\n", "x">>
Bodies == { <<>>, HelloWorld, Binary }

LastModifiedValue == <<"Thu, 01 Jan 1970 00:00:00 GMT">>
EtagValue == <<"\"", "0", "-", "0", "\"">>

Versions == { "Http09", "Http10", "Http11" }

NotEncoded == [version |-> "none", keep_alive |-> FALSE]

\* The header set first, after a setter that sets `names` in that order
Track(first, names) == IF first = "" THEN names[1] ELSE first

\* HttpResponse::ok, not_found, internal_server_error, moved_permanently and
\* not_modified
InitResponse ==
    /\ NoServer
    /\ NoPolicy
    /\ NoVersion
    /\ NoCache
    /\ NoPrivileges
    /\ NoDomainCall
    /\ NoStats
    /\ \/ /\ resp \in { HttpResponse_new(200, "OK", b) : b \in Bodies }
                  \cup { HttpResponse_new(404, "Not Found", <<>>),
                         HttpResponse_new(500, "Internal Server Error", <<>>) }
          /\ first_set = ""
       \/ /\ resp = moved_permanently(<<"/", "a", "/">>)
          /\ first_set = "Location"
       \/ /\ resp = not_modified(LastModifiedValue, EtagValue)
          /\ first_set = "Last-Modified"
    /\ wire = <<>>
    /\ encoded_as = NotEncoded

\* A setter may run: encode has not consumed the response, and the header map
\* stays within the bound
CanSet(r) ==
    /\ encoded_as = NotEncoded
    /\ Cardinality(DOMAIN r.headers) <= MaxHeaders

SetHeader ==
    \E h \in { <<"Connection", <<"keep-alive">> >>, <<"X-Custom", <<"v">> >> } :
        /\ CanSet(set_header(resp, h[1], h[2]))
        /\ resp' = set_header(resp, h[1], h[2])
        /\ first_set' = Track(first_set, <<h[1]>>)
        /\ UNCHANGED <<wire, encoded_as, notRespVars>>

SetContentType ==
    /\ CanSet(set_content_type(resp, <<"text/plain">>))
    /\ resp' = set_content_type(resp, <<"text/plain">>)
    /\ first_set' = Track(first_set, <<"Content-Type">>)
    /\ UNCHANGED <<wire, encoded_as, notRespVars>>

SetContentLength ==
    /\ CanSet(set_content_length(resp))
    /\ resp' = set_content_length(resp)
    /\ first_set' = Track(first_set, <<"Content-Length">>)
    /\ UNCHANGED <<wire, encoded_as, notRespVars>>

SetCacheControl ==
    /\ CanSet(set_cache_control(resp, <<"public, max-age=300">>))
    /\ resp' = set_cache_control(resp, <<"public, max-age=300">>)
    /\ first_set' = Track(first_set, <<"Cache-Control">>)
    /\ UNCHANGED <<wire, encoded_as, notRespVars>>

SetLastModified ==
    /\ CanSet(set_last_modified(resp, LastModifiedValue))
    /\ resp' = set_last_modified(resp, LastModifiedValue)
    /\ first_set' = Track(first_set, <<"Last-Modified">>)
    /\ UNCHANGED <<wire, encoded_as, notRespVars>>

SetEtag ==
    /\ CanSet(set_etag(resp, EtagValue))
    /\ resp' = set_etag(resp, EtagValue)
    /\ first_set' = Track(first_set, <<"ETag">>)
    /\ UNCHANGED <<wire, encoded_as, notRespVars>>

\* The durations add_caching_headers is called with: one per match arm
CacheDurations == { -5, -1, 0, 60 }

AddCachingHeadersWith(d) ==
    /\ CanSet(add_caching_headers(resp, LastModifiedValue, EtagValue, d))
    /\ resp' = add_caching_headers(resp, LastModifiedValue, EtagValue, d)
    /\ first_set' = Track(first_set, <<"Last-Modified", "ETag", "Cache-Control">>)
    /\ UNCHANGED <<wire, encoded_as, notRespVars>>

AddCachingHeaders == \E d \in CacheDurations : AddCachingHeadersWith(d)

AddSecurityHeaders ==
    /\ CanSet(add_security_headers(resp))
    /\ resp' = add_security_headers(resp)
    /\ first_set' = Track(first_set, <<"X-Content-Type-Options", "X-Frame-Options",
                                       "X-XSS-Protection", "Cache-Control">>)
    /\ UNCHANGED <<wire, encoded_as, notRespVars>>

AddSecurityHeadersNoCacheOverride ==
    /\ CanSet(add_security_headers_no_cache_override(resp))
    /\ resp' = add_security_headers_no_cache_override(resp)
    /\ first_set' = Track(first_set, <<"X-Content-Type-Options", "X-Frame-Options",
                                       "X-XSS-Protection">>)
    /\ UNCHANGED <<wire, encoded_as, notRespVars>>

\* HttpResponse::encode; the response is consumed
Encode ==
    /\ encoded_as = NotEncoded
    /\ \E version \in Versions, keep_alive \in BOOLEAN,
          order \in IterationOrders(resp.headers) :
          /\ wire' = encode(resp, version, keep_alive, order)
          /\ encoded_as' = [version |-> version, keep_alive |-> keep_alive]
    /\ UNCHANGED <<resp, first_set, notRespVars>>

NextResponse ==
    \/ SetHeader
    \/ SetContentType
    \/ SetContentLength
    \/ SetCacheControl
    \/ SetLastModified
    \/ SetEtag
    \/ AddCachingHeaders
    \/ AddSecurityHeaders
    \/ AddSecurityHeadersNoCacheOverride
    \/ Encode

\* One HttpResponse built by setter calls and encoded once
SpecResponse == InitResponse /\ [][NextResponse]_vars

-----------------------------------------------------------------------------
(* ConnectionPolicy::should_keep_alive.                                    *)

NoHeader == [some |-> FALSE, value |-> <<>>]
SomeHeader(v) == [some |-> TRUE, value |-> v]

\* The `match version` of should_keep_alive
VersionRule(version, request_connection_header) ==
    CASE version = "Http09" -> FALSE
      [] version = "Http10" ->
            IF request_connection_header.some
            THEN Contains(ToLowercase(request_connection_header.value),
                          <<"k", "e", "e", "p", "-", "a", "l", "i", "v", "e">>)
            ELSE FALSE
      [] version = "Http11" ->
            IF request_connection_header.some
            THEN ~Contains(ToLowercase(request_connection_header.value),
                           <<"c", "l", "o", "s", "e">>)
            ELSE TRUE

\* should_keep_alive with the size test written `>=`
should_keep_alive_SizeGe(p, version, request_connection_header, response_size, request_count) ==
    IF request_count >= p.max_requests THEN FALSE
    ELSE IF response_size >= 10 * 1024 * 1024 THEN FALSE
    ELSE VersionRule(version, request_connection_header)

should_keep_alive(p, version, request_connection_header, response_size, request_count) ==
    IF request_count >= p.max_requests THEN FALSE
    ELSE IF response_size > 10 * 1024 * 1024 THEN FALSE
    ELSE VersionRule(version, request_connection_header)

KeepAliveLower == <<"k", "e", "e", "p", "-", "a", "l", "i", "v", "e">>
KeepAliveMixed == <<"K", "e", "e", "p", "-", "A", "l", "i", "v", "e">>
CloseLower == <<"c", "l", "o", "s", "e">>
CloseMixed == <<"C", "l", "o", "s", "e">>
CloseUpper == <<"C", "L", "O", "S", "E">>

\* The Connection header values explored
ConnectionHeaders ==
    { NoHeader } \cup
    { SomeHeader(v) :
        v \in { <<>>, KeepAliveLower, KeepAliveMixed, CloseLower, CloseMixed,
                CloseUpper, <<"U", "p", "g", "r", "a", "d", "e">>,
                KeepAliveLower \o <<",", " ">> \o CloseMixed,
                <<"k", "e", "e", "p">>, <<"c", "l", "o", "s">> } }

\* Response sizes on either side of the 10 MiB limit
ResponseSizes ==
    { 0, 1000, 5 * 1024 * 1024, 10 * 1024 * 1024 - 1, 10 * 1024 * 1024,
      10 * 1024 * 1024 + 1, 11 * 1024 * 1024 }

\* Request counts on either side of the two policies' max_requests
RequestCounts == { 0, 1, 4, 5, 6, 99, 100, 101 }

Policies == { ConnectionPolicy_default, ConnectionPolicy_new(5, 10) }

InitPolicy ==
    /\ NoServer
    /\ NoResponse
    /\ NoVersion
    /\ NoCache
    /\ NoPrivileges
    /\ NoDomainCall
    /\ NoStats
    /\ policy \in Policies
    /\ call = NoCall
    /\ keep_alive_decision = FALSE
    /\ connection = NoConnection

ShouldKeepAlive ==
    /\ call = NoCall
    /\ \E version \in Versions, header \in ConnectionHeaders,
          response_size \in ResponseSizes, request_count \in RequestCounts :
           /\ call' = [version |-> version, request_connection_header |-> header,
                       response_size |-> response_size,
                       request_count |-> request_count]
           /\ keep_alive_decision' =
                 should_keep_alive(policy, version, header, response_size,
                                   request_count)
           /\ UNCHANGED <<policy, connection, notPolicyVars>>

NextPolicy == ShouldKeepAlive

\* should_keep_alive applied to every combination of arguments
SpecPolicy == InitPolicy /\ [][NextPolicy]_vars

-----------------------------------------------------------------------------
(* One connection served by the transport layer, which owns the count of   *)
(* requests handled and asks should_keep_alive once per request-response   *)
(* cycle.                                                                  *)

InitConnection ==
    /\ NoServer
    /\ NoResponse
    /\ NoVersion
    /\ NoCache
    /\ NoPrivileges
    /\ NoDomainCall
    /\ NoStats
    /\ policy \in Policies
    /\ call = NoCall
    /\ keep_alive_decision = FALSE
    /\ connection = [open |-> TRUE, requests_handled |-> 0]

\* One request-response cycle: the request is answered, with the keep-alive
\* decision taken on the number of requests handled before it; the count
\* goes up by one and the connection is closed when the decision is false
HandleRequest ==
    /\ connection.open
    /\ \E version \in {"Http11"}, header \in ConnectionHeaders,
          response_size \in ResponseSizes :
           /\ call' = [version |-> version, request_connection_header |-> header,
                       response_size |-> response_size,
                       request_count |-> connection.requests_handled]
           /\ keep_alive_decision' =
                 should_keep_alive(policy, version, header, response_size,
                                   connection.requests_handled)
           /\ connection' =
                 [open |-> keep_alive_decision',
                  requests_handled |-> connection.requests_handled + 1]
    /\ UNCHANGED <<policy, notPolicyVars>>

NextConnection == HandleRequest

\* Http11 requests on one connection until the policy closes it
SpecConnection == InitConnection /\ [][NextConnection]_vars

-----------------------------------------------------------------------------
(* HttpVersion::from_request_line.  Request lines are sequences of         *)
(* characters.                                                             *)

HttpSlash == <<"H", "T", "T", "P", "/">>
Http11Token == HttpSlash \o <<"1", ".", "1">>
Http10Token == HttpSlash \o <<"1", ".", "0">>

from_request_line(line) ==
    LET version_start == Find(line, HttpSlash) IN
    IF version_start # 0
    THEN LET version_part == SubSeq(line, version_start, Len(line)) IN
         IF StartsWithStr(version_part, Http11Token) THEN "Http11"
         ELSE IF StartsWithStr(version_part, Http10Token) THEN "Http10"
         ELSE "Http09"
    ELSE "Http09"

Methods == { <<"G", "E", "T">>, <<"H", "E", "A", "D">>, <<"P", "O", "S", "T">> }

\* Request targets, some of them holding the text of a version token
LineTargets ==
    { <<"/">>, <<"/", "p", "a", "t", "h">>, <<"/">> \o Http10Token,
      <<"/">> \o Http11Token, <<"/", "a", "?", "v", "=">> \o HttpSlash }

\* Version tokens; <<>> is a request line without one
VersionTokens ==
    { <<>>, Http11Token, Http10Token, HttpSlash \o <<"2", ".", "0">>,
      HttpSlash \o <<"0", ".", "9">>, Http11Token \o <<"0">>,
      <<"h", "t", "t", "p", "/", "1", ".", "1">> }

\* '<method> <target> <version-token>' or '<method> <target>'
LineOf(l) ==
    l.method \o <<" ">> \o l.target
    \o (IF l.version_token = <<>> THEN <<>> ELSE <<" ">> \o l.version_token)

InitVersion ==
    /\ NoServer
    /\ NoResponse
    /\ NoPolicy
    /\ NoCache
    /\ NoPrivileges
    /\ NoDomainCall
    /\ NoStats
    /\ request_line \in [method : Methods, target : LineTargets,
                          version_token : VersionTokens]
    /\ http_version = "none"

FromRequestLine ==
    /\ http_version = "none"
    /\ http_version' = from_request_line(LineOf(request_line))
    /\ UNCHANGED <<request_line, notVersionVars>>

NextVersion == FromRequestLine

\* from_request_line applied to every request line
SpecVersion == InitVersion /\ [][NextVersion]_vars

-----------------------------------------------------------------------------
(* file_cache: FileCacheInfo and conditional requests.  Times are seconds  *)
(* relative to the Unix epoch; header values are sequences of characters.  *)

\* from_metadata with the two parts of the ETag run together
from_metadata_NoSeparator(metadata, now) ==
    LET since_epoch == IF metadata.modified.ok THEN metadata.modified.time ELSE now
        last_modified == IF since_epoch < 0 THEN 0 ELSE since_epoch
    IN  [last_modified |-> last_modified, size |-> metadata.len,
         etag |-> <<"\"">> \o ToDigits(last_modified) \o ToDigits(metadata.len) \o <<"\"">>]

\* FileCacheInfo::from_metadata; `now` is SystemTime::now(), used when the
\* platform has no modification time, and a time before the epoch counts as 0
from_metadata(metadata, now) ==
    LET since_epoch == IF metadata.modified.ok THEN metadata.modified.time ELSE now
        last_modified == IF since_epoch < 0 THEN 0 ELSE since_epoch
    IN  [last_modified |-> last_modified, size |-> metadata.len,
         etag |-> <<"\"">> \o ToDigits(last_modified) \o <<"-">>
                  \o ToDigits(metadata.len) \o <<"\"">>]

RECURSIVE trim_matches(_, _)
\* str::trim_matches(char): c removed from both ends, as often as it occurs
trim_matches(str, c) ==
    IF str # <<>> /\ Head(str) = c THEN trim_matches(Tail(str), c)
    ELSE IF str # <<>> /\ str[Len(str)] = c
    THEN trim_matches(SubSeq(str, 1, Len(str) - 1), c)
    ELSE str

Digits == <<"0", "1", "2", "3", "4", "5", "6", "7", "8", "9">>

RECURSIVE DigitsValue(_)
\* The number a non-empty sequence of digits denotes
DigitsValue(ds) ==
    IF ds = <<>> THEN 0
    ELSE DigitsValue(SubSeq(ds, 1, Len(ds) - 1)) * 10
         + (CHOOSE d \in 0..9 : Digits[d + 1] = ds[Len(ds)])

\* str::parse::<u64>: digits, optionally after one '+'; [ok, value]
parse_u64(str) ==
    LET ds == IF str # <<>> /\ Head(str) = "+" THEN Tail(str) ELSE str IN
    IF ds # <<>> /\ \A i \in 1..Len(ds) : \E d \in 1..10 : Digits[d] = ds[i]
    THEN [ok |-> TRUE, value |-> DigitsValue(ds)]
    ELSE [ok |-> FALSE, value |-> 0]

\* should_return_not_modified with the timestamps compared by `>`
should_return_not_modified_Gt(info, if_modified_since, if_none_match) ==
    IF /\ if_none_match.some
       /\ trim_matches(if_none_match.value, "\"") = trim_matches(info.etag, "\"")
    THEN TRUE
    ELSE IF /\ if_modified_since.some
            /\ parse_u64(if_modified_since.value).ok
            /\ parse_u64(if_modified_since.value).value > info.last_modified
    THEN TRUE
    ELSE FALSE

should_return_not_modified(info, if_modified_since, if_none_match) ==
    IF /\ if_none_match.some
       /\ trim_matches(if_none_match.value, "\"") = trim_matches(info.etag, "\"")
    THEN TRUE
    ELSE IF /\ if_modified_since.some
            /\ parse_u64(if_modified_since.value).ok
            /\ parse_u64(if_modified_since.value).value >= info.last_modified
    THEN TRUE
    ELSE FALSE

\* get_cache_duration that gives every text type the HTML duration
get_cache_duration_AnyText(t) ==
    IF StartsWithStr(t, <<"image/">>) THEN 31536000
    ELSE IF StartsWithStr(t, <<"text/", "css">>) THEN 31536000
    ELSE IF StartsWithStr(t, <<"application/", "javascript">>) THEN 31536000
    ELSE IF StartsWithStr(t, <<"application/", "font-">>) THEN 31536000
    ELSE IF StartsWithStr(t, <<"font/">>) THEN 31536000
    ELSE IF StartsWithStr(t, <<"application/", "gzip">>) THEN 86400
    ELSE IF StartsWithStr(t, <<"application/", "zip">>) THEN 86400
    ELSE IF StartsWithStr(t, <<"application/", "x-tar">>) THEN 86400
    ELSE IF StartsWithStr(t, <<"application/", "octet-stream">>) THEN 86400
    ELSE IF StartsWithStr(t, <<"text/">>) THEN 3600
    ELSE IF StartsWithStr(t, <<"application/", "json">>) THEN 3600
    ELSE IF StartsWithStr(t, <<"application/", "xml">>) THEN 3600
    ELSE 0

\* FileCacheInfo::get_cache_duration: the first arm whose prefix matches
get_cache_duration(t) ==
    IF StartsWithStr(t, <<"image/">>) THEN 31536000
    ELSE IF StartsWithStr(t, <<"text/", "css">>) THEN 31536000
    ELSE IF StartsWithStr(t, <<"application/", "javascript">>) THEN 31536000
    ELSE IF StartsWithStr(t, <<"application/", "font-">>) THEN 31536000
    ELSE IF StartsWithStr(t, <<"font/">>) THEN 31536000
    ELSE IF StartsWithStr(t, <<"application/", "gzip">>) THEN 86400
    ELSE IF StartsWithStr(t, <<"application/", "zip">>) THEN 86400
    ELSE IF StartsWithStr(t, <<"application/", "x-tar">>) THEN 86400
    ELSE IF StartsWithStr(t, <<"application/", "octet-stream">>) THEN 86400
    ELSE IF StartsWithStr(t, <<"text/", "html">>) THEN 3600
    ELSE IF StartsWithStr(t, <<"application/", "json">>) THEN 3600
    ELSE IF StartsWithStr(t, <<"application/", "xml">>) THEN 3600
    ELSE IF StartsWithStr(t, <<"text/", "xml">>) THEN 3600
    ELSE 0

\* The content types asked about: those of the MIME table, with and without
\* a charset parameter, and some the table does not produce
ContentTypes ==
    LET table == { MimeTypes_default[e] : e \in DOMAIN MimeTypes_default }
        more == { <<"application/", "font-", "woff">>, <<"text/", "xml">>,
                  <<"text/", "csv">>, <<"video/", "mp4">>, <<"message/", "http">>,
                  <<>> }
        bare == { IF EndsWith(t, Charset[1]) THEN SubSeq(t, 1, Len(t) - 1) ELSE t :
                  t \in table \cup more }
    IN  bare \cup { t \o Charset : t \in bare }

\* str::lines: the pieces between '\n', a trailing '\r' of each removed, and
\* no last piece when the string ends with '\n'
str_lines(str) ==
    LET pieces == SplitOn(str, "\n")
        kept == IF pieces[Len(pieces)] = <<>>
                THEN SubSeq(pieces, 1, Len(pieces) - 1) ELSE pieces
    IN  [i \in 1..Len(kept) |->
            IF kept[i] # <<>> /\ kept[i][Len(kept[i])] = "\r"
            THEN SubSeq(kept[i], 1, Len(kept[i]) - 1) ELSE kept[i]]

Whitespace == {" ", "\t", "\r", "\n"}

RECURSIVE trim(_)
\* str::trim: white space removed from both ends
trim(str) ==
    IF str # <<>> /\ Head(str) \in Whitespace THEN trim(Tail(str))
    ELSE IF str # <<>> /\ str[Len(str)] \in Whitespace
    THEN trim(SubSeq(str, 1, Len(str) - 1))
    ELSE str

IfModifiedSinceName == <<"If-Modified-Since", ":">>
IfNoneMatchName == <<"If-None-Match", ":">>

RECURSIVE ParseHeaderLines(_, _, _)
\* `for line in request.lines()`: a later line of the same name wins
ParseHeaderLines(lines, if_modified_since, if_none_match) ==
    IF lines = <<>>
    THEN [if_modified_since |-> if_modified_since, if_none_match |-> if_none_match]
    ELSE LET line == Head(lines) IN
         IF StartsWithStr(line, IfModifiedSinceName)
         THEN ParseHeaderLines(Tail(lines),
                  SomeHeader(trim(SubSeq(line, Len(IfModifiedSinceName) + 1, Len(line)))),
                  if_none_match)
         ELSE IF StartsWithStr(line, IfNoneMatchName)
         THEN ParseHeaderLines(Tail(lines), if_modified_since,
                  SomeHeader(trim(SubSeq(line, Len(IfNoneMatchName) + 1, Len(line)))))
         ELSE ParseHeaderLines(Tail(lines), if_modified_since, if_none_match)

\* parse_conditional_headers that keeps the white space around a value
parse_conditional_headers_NoTrim(http_request) ==
    LET lines == str_lines(http_request)
        Value(name) ==
            LET hits == { i \in 1..Len(lines) : StartsWithStr(lines[i], name) }
                last == CHOOSE i \in hits : \A j \in hits : j <= i
            IN  IF hits = {} THEN NoHeader
                ELSE SomeHeader(SubSeq(lines[last], Len(name) + 1, Len(lines[last])))
    IN  [if_modified_since |-> Value(IfModifiedSinceName),
         if_none_match |-> Value(IfNoneMatchName)]

parse_conditional_headers(http_request) == ParseHeaderLines(str_lines(http_request), NoHeader, NoHeader)

\* The request a client composes: a request line, Host, If-None-Match with
\* the ETag it holds (as received, or without the quotes), If-Modified-Since
\* when it sends one, and the empty line
RequestText(c) ==
    <<"GET /test.txt HTTP/1.1", "\r", "\n", "Host", ":", " ", "example.com", "\r", "\n">>
    \o (IF c.if_modified_since = <<>> THEN <<>>
        ELSE IfModifiedSinceName \o <<" ">> \o c.if_modified_since[1] \o <<"\r", "\n">>)
    \o IfNoneMatchName \o c.space
    \o (IF c.quoted THEN c.etag ELSE trim_matches(c.etag, "\""))
    \o <<"\r", "\n", "\r", "\n">>

\* File metadata: modified() may fail, and may lie before the epoch
Metadatas ==
    [modified : { [ok |-> FALSE, time |-> 0] }
                \cup { [ok |-> TRUE, time |-> t] : t \in {-5, 1, 12, 1234567890} },
     len : {0, 3, 23, 1024}]

\* If-None-Match values, for a server ETag e
IfNoneMatchValues(e) ==
    { NoHeader, SomeHeader(e), SomeHeader(trim_matches(e, "\"")),
      SomeHeader(<<"\"">> \o e \o <<"\"">>), SomeHeader(<<>>), SomeHeader(<<"\"">>),
      SomeHeader(<<"W", "/">> \o e), SomeHeader(<<"\"", "a", "b", "c", "\"">>) }

\* If-Modified-Since values, around a last_modified t
IfModifiedSinceValues(t) ==
    { NoHeader, SomeHeader(ToDigits(t)), SomeHeader(ToDigits(t + 1)),
      SomeHeader(<<"0">> \o ToDigits(t)), SomeHeader(<<"+">> \o ToDigits(t)),
      SomeHeader(<<"-">> \o ToDigits(t)), SomeHeader(<<>>), SomeHeader(<<"0">>),
      SomeHeader(<<" ">> \o ToDigits(t)),
      SomeHeader(<<"T", "h", "u", ",", " ", "0", "1", " ", "J", "a", "n">>) }

InitCache ==
    /\ NoServer
    /\ NoResponse
    /\ NoPolicy
    /\ NoVersion
    /\ NoCache
    /\ NoPrivileges
    /\ NoDomainCall
    /\ NoStats

\* from_metadata for two files
FromMetadata ==
    /\ cache_info = NoInfo
    /\ \E m1 \in Metadatas, m2 \in Metadatas, now \in {1700000000} :
          /\ cache_info' = from_metadata(m1, now)
          /\ other_info' = from_metadata(m2, now)
    /\ UNCHANGED <<conditional, not_modified_decision, queried_type, cache_duration,
                   client_request, notCacheVars>>

ShouldReturnNotModified ==
    /\ cache_info # NoInfo
    /\ not_modified_decision = <<>>
    /\ cache_duration = <<>>
    /\ \E inm \in IfNoneMatchValues(cache_info.etag),
          ims \in IfModifiedSinceValues(cache_info.last_modified) :
          /\ conditional' = [if_modified_since |-> ims, if_none_match |-> inm]
          /\ not_modified_decision' =
                << should_return_not_modified(cache_info, ims, inm) >>
    /\ UNCHANGED <<cache_info, other_info, queried_type, cache_duration,
                   client_request, notCacheVars>>

GetCacheDuration ==
    /\ cache_info # NoInfo
    /\ not_modified_decision = <<>>
    /\ cache_duration = <<>>
    /\ \E t \in ContentTypes :
          /\ queried_type' = t
          /\ cache_duration' = << get_cache_duration(t) >>
    /\ UNCHANGED <<cache_info, other_info, conditional, not_modified_decision,
                   client_request, notCacheVars>>

\* A client that holds the ETag of the file, or the one of the file as it was
\* before a change, asks again: parse_conditional_headers, then
\* should_return_not_modified
ConditionalRequest ==
    /\ cache_info # NoInfo
    /\ not_modified_decision = <<>>
    /\ cache_duration = <<>>
    /\ \E etag \in { cache_info.etag, other_info.etag }, quoted \in BOOLEAN,
          space \in { <<>>, <<" ">>, <<" ", " ">> },
          ims \in { <<>>, <<ToDigits(other_info.last_modified)>> } :
          \E c \in { [etag |-> etag, quoted |-> quoted, space |-> space,
                      if_modified_since |-> ims] } :
          \E h \in { parse_conditional_headers(RequestText(c)) } :
              /\ client_request' = c
              /\ conditional' = h
              /\ not_modified_decision' =
                    << should_return_not_modified(cache_info, h.if_modified_since,
                                                  h.if_none_match) >>
    /\ UNCHANGED <<cache_info, other_info, queried_type, cache_duration, notCacheVars>>

NextCache ==
    \/ FromMetadata
    \/ ShouldReturnNotModified
    \/ ConditionalRequest
    \/ GetCacheDuration

\* FileCacheInfo of two files, and one conditional request for the first
SpecCache == InitCache /\ [][NextCache]_vars

-----------------------------------------------------------------------------
(* SecureFileServer::generate_http_response_with_version.                  *)

GenerateTargets ==
    { <<"/">>, <<"/", "style", ".", "css">>,
      <<"/", "x", ".", "EXE">>, <<"/", ".", ".">>, <<"/", "b", "/">> \o IndexHtml }

\* File contents: text, and bytes that are not valid UTF-8
GenerateContents == { HelloWorld, Binary }

InitGenerate == Init /\ cwd = <<>> /\ ~config.follow_symlinks

\* generate_http_response_with_version: the response is built, encoded with
\* the header map iterated in some order, and returned as a String
GenerateHttpResponse ==
    /\ pc = "idle"
    /\ \E path \in GenerateTargets, content \in GenerateContents :
          \E g \in { response_for(
                        sanitize_path_with_root(config, path, config.document_root, cwd),
                        content, cwd) } :
          /\ request' = [path |-> path, domain |-> NoDomain]
          /\ sanitized' = IF g.ok THEN "Ok" ELSE "Err"
          /\ file_path' = g.path
          /\ resp' = g.response
          /\ IF g.ok
             THEN \E version \in Versions, keep_alive \in BOOLEAN,
                     order \in IterationOrders(g.response.headers) :
                     /\ wire' = from_utf8_lossy(
                                    encode(g.response, version, keep_alive, order))
                     /\ encoded_as' = [version |-> version, keep_alive |-> keep_alive]
             ELSE UNCHANGED <<wire, encoded_as>>
    /\ pc' = "done"
    /\ UNCHANGED <<config, cwd, document_root, result, via, served, fsops, first_set,
                   policyVars, versionVars, cacheVars, privVars,
                   domainVars, statsVars>>

\* The response generate_simple_http_response_with_version builds
simple_response(content, content_type, include_last_modified, now) ==
    LET r1 == set_content_length(
                  set_content_type(HttpResponse_new(200, "OK", content), content_type))
        r2 == IF include_last_modified
              THEN set_last_modified(r1, format_http_date(now)) ELSE r1
        r3 == IF StartsWithStr(content_type, <<"text/", "html">>)
              THEN add_security_headers(r2) ELSE r2
    IN  IF StartsWithStr(content_type, <<"text/", "plain">>)
        THEN set_cache_control(r3, <<"no-cache">>)
        ELSE set_cache_control(r3, <<"public, max-age=300">>)

SimpleContentTypes ==
    { <<"text/", "html">> \o Charset, <<"text/", "plain">>, <<"image/", "png">> }

\* generate_simple_http_response_with_version, for an ACME challenge, a
\* default page or other content held in memory
GenerateSimpleHttpResponse ==
    /\ pc = "idle"
    /\ \E content \in GenerateContents, content_type \in SimpleContentTypes,
          include_last_modified \in BOOLEAN :
          \E r \in { simple_response(content, content_type, include_last_modified,
                                     1700000000) } :
              /\ resp' = r
              /\ \E version \in Versions, keep_alive \in BOOLEAN,
                    order \in IterationOrders(r.headers) :
                    /\ wire' = from_utf8_lossy(encode(r, version, keep_alive, order))
                    /\ encoded_as' = [version |-> version, keep_alive |-> keep_alive]
    /\ pc' = "done"
    /\ UNCHANGED <<config, cwd, request, document_root, file_path, sanitized, result,
                   via, served, fsops, first_set, policyVars, versionVars, cacheVars,
                   privVars, domainVars, statsVars>>

NextGenerate ==
    \/ GenerateHttpResponse
    \/ GenerateSimpleHttpResponse

\* One response generated, for a file or for content held in memory
SpecGenerate == InitGenerate /\ [][NextGenerate]_vars

-----------------------------------------------------------------------------
(* SecureFileServer::drop_privileges on Unix, step by step.  A process has *)
(* real, effective and saved user and group IDs; setgid(2) and setuid(2)   *)
(* change all three for a privileged caller (effective user 0) and only    *)
(* the effective ID, to the real or the saved one, for any other caller.   *)

\* libc::setgid: 0 and the new IDs, or -1 with the IDs unchanged
setgid(p, gid) ==
    IF p.euid = 0
    THEN [ret |-> 0, process |-> [p EXCEPT !.rgid = gid, !.egid = gid, !.sgid = gid]]
    ELSE IF gid \in {p.rgid, p.sgid}
    THEN [ret |-> 0, process |-> [p EXCEPT !.egid = gid]]
    ELSE [ret |-> -1, process |-> p]

\* libc::setuid
setuid(p, uid) ==
    IF p.euid = 0
    THEN [ret |-> 0, process |-> [p EXCEPT !.ruid = uid, !.euid = uid, !.suid = uid]]
    ELSE IF uid \in {p.ruid, p.suid}
    THEN [ret |-> 0, process |-> [p EXCEPT !.euid = uid]]
    ELSE [ret |-> -1, process |-> p]

getuid(p) == p.ruid

getgid(p) == p.rgid

\* `new_uid != uid && new_gid != gid`
ids_differ_Both(new_uid, new_gid, uid, gid) == new_uid # uid /\ new_gid # gid

\* `if new_uid != uid || new_gid != gid`
ids_differ(new_uid, new_gid, uid, gid) == new_uid # uid \/ new_gid # gid

Ids == { 0, 1000, 1001 }

\* The processes the server may be started as: root, a plain user, a
\* set-user-ID-root program and a program set-user-ID and set-group-ID to
\* another account
Processes ==
    { [ruid |-> 0, euid |-> 0, suid |-> 0, rgid |-> 0, egid |-> 0, sgid |-> 0],
      [ruid |-> 1000, euid |-> 1000, suid |-> 1000,
       rgid |-> 1000, egid |-> 1000, sgid |-> 1000],
      [ruid |-> 1000, euid |-> 0, suid |-> 0,
       rgid |-> 1000, egid |-> 1000, sgid |-> 1000],
      [ruid |-> 1000, euid |-> 1001, suid |-> 1001,
       rgid |-> 1000, egid |-> 1001, sgid |-> 1001] }

\* Option<u32> over Ids
OptionalIds == { <<>> } \cup { <<i>> : i \in Ids }

Syscall(name, arg, ret) == [call |-> name, arg |-> arg, ret |-> ret]

InitPrivileges ==
    /\ NoServer
    /\ NoResponse
    /\ NoPolicy
    /\ NoVersion
    /\ NoCache
    /\ NoDomainCall
    /\ NoStats
    /\ drop_to \in [uid : OptionalIds, gid : OptionalIds]
    /\ process \in Processes
    /\ drop_pc = "idle"
    /\ drop_result = "none"
    /\ syscalls = <<>>

\* `if let (Some(uid), Some(gid)) = (drop_to_uid, drop_to_gid)`, else Ok(())
DropPrivileges ==
    /\ drop_pc = "idle"
    /\ IF drop_to.uid # <<>> /\ drop_to.gid # <<>>
       THEN /\ drop_pc' = "setgid"
            /\ UNCHANGED drop_result
       ELSE /\ drop_pc' = "done"
            /\ drop_result' = "Ok"
    /\ UNCHANGED <<drop_to, process, syscalls, notPrivVars>>

\* `if libc::setgid(gid) != 0 { return Err(..) }`
Setgid ==
    /\ drop_pc = "setgid"
    /\ LET r == setgid(process, drop_to.gid[1]) IN
          /\ process' = r.process
          /\ syscalls' = Append(syscalls, Syscall("setgid", drop_to.gid[1], r.ret))
          /\ IF r.ret # 0
             THEN drop_pc' = "done" /\ drop_result' = "Err"
             ELSE drop_pc' = "setuid" /\ UNCHANGED drop_result
    /\ UNCHANGED <<drop_to, notPrivVars>>

\* `if libc::setuid(uid) != 0 { return Err(..) }`
Setuid ==
    /\ drop_pc = "setuid"
    /\ LET r == setuid(process, drop_to.uid[1]) IN
          /\ process' = r.process
          /\ syscalls' = Append(syscalls, Syscall("setuid", drop_to.uid[1], r.ret))
          /\ IF r.ret # 0
             THEN drop_pc' = "done" /\ drop_result' = "Err"
             ELSE drop_pc' = "verify" /\ UNCHANGED drop_result
    /\ UNCHANGED <<drop_to, notPrivVars>>

\* The IDs are read back and compared with the requested ones
VerifyDrop ==
    /\ drop_pc = "verify"
    /\ drop_result' = IF ids_differ(getuid(process), getgid(process),
                                    drop_to.uid[1], drop_to.gid[1])
                      THEN "Err" ELSE "Ok"
    /\ drop_pc' = "done"
    /\ UNCHANGED <<drop_to, process, syscalls, notPrivVars>>

NextPrivileges ==
    \/ DropPrivileges
    \/ Setgid
    \/ Setuid
    \/ VerifyDrop

\* One call of drop_privileges at startup
SpecPrivileges == InitPrivileges /\ [][NextPrivileges]_vars

-----------------------------------------------------------------------------
(* The two HTTP date formatters: format_http_date of the file server and   *)
(* format_http_date_from_timestamp behind FileCacheInfo::last_modified_http.*)

is_leap_year(year) == (year % 4 = 0 /\ year % 100 # 0) \/ (year % 400 = 0)

RECURSIVE YearLoop(_, _)
\* `loop { .. remaining_days -= days_in_year; year += 1; }`
YearLoop(year, remaining_days) ==
    LET days_in_year == IF is_leap_year(year) THEN 366 ELSE 365 IN
    IF remaining_days < days_in_year
    THEN [year |-> year, remaining_days |-> remaining_days]
    ELSE YearLoop(year + 1, remaining_days - days_in_year)

RECURSIVE MonthLoop(_, _, _)
\* `for (m, &days_in_month) in days_in_months.iter().enumerate()`
MonthLoop(days_in_months, m, day) ==
    IF m > 12 THEN [month |-> 1, day |-> day]
    ELSE IF day <= days_in_months[m] THEN [month |-> m, day |-> day]
    ELSE MonthLoop(days_in_months, m + 1, day - days_in_months[m])

DAYS == <<"Sun", "Mon", "Tue", "Wed", "Thu", "Fri", "Sat">>
MONTHS == <<"Jan", "Feb", "Mar", "Apr", "May", "Jun", "Jul", "Aug", "Sep", "Oct",
            "Nov", "Dec">>

format_http_date_from_timestamp(timestamp) ==
    LET days_since_epoch == timestamp \div 86400
        day_of_week == (days_since_epoch + 4) % 7
        y == YearLoop(1970, days_since_epoch)
        days_in_months ==
            IF is_leap_year(y.year)
            THEN <<31, 29, 31, 30, 31, 30, 31, 31, 30, 31, 30, 31>>
            ELSE <<31, 28, 31, 30, 31, 30, 31, 31, 30, 31, 30, 31>>
        md == MonthLoop(days_in_months, 1, y.remaining_days + 1)
        secs_today == timestamp % 86400
    IN  <<DAYS[day_of_week + 1], ",", " ">> \o Pad2(md.day)
        \o <<" ", MONTHS[md.month], " ">> \o ToDigits(y.year) \o <<" ">>
        \o Pad2(secs_today \div 3600) \o <<":">>
        \o Pad2((secs_today % 3600) \div 60) \o <<":">>
        \o Pad2(secs_today % 60) \o <<" ", "GMT">>

last_modified_http(info) == format_http_date_from_timestamp(info.last_modified)

\* Days since the epoch around the turns of months and years, leap days
\* (1972, 2000, 2024) included
FileDays ==
    (0..3) \cup (57..61) \cup (363..367) \cup (729..732) \cup (787..791)
    \cup (1094..1097) \cup (11015..11018) \cup (11322..11324) \cup (19781..19784)

\* Modification times: the first, the last and another second of those days
FileTimes == { d * 86400 + sec : d \in FileDays, sec \in {0, 3661, 86399} }

InitDate ==
    /\ NoServer
    /\ NoResponse
    /\ NoPolicy
    /\ NoVersion
    /\ NoCache
    /\ NoPrivileges
    /\ NoDomainCall
    /\ NoStats

\* For a file modified at t: the Last-Modified header that
\* generate_http_response_with_version sets, and the file's FileCacheInfo
LastModifiedOfFile ==
    /\ cache_info = NoInfo
    /\ first_set = ""
    /\ \E t \in FileTimes :
          /\ resp' = set_last_modified(HttpResponse_new(200, "OK", HelloWorld),
                                       format_http_date(t))
          /\ cache_info' = from_metadata([modified |-> [ok |-> TRUE, time |-> t],
                                          len |-> Len(HelloWorld)], t)
    /\ first_set' = "Last-Modified"
    /\ UNCHANGED <<wire, encoded_as, other_info, conditional, not_modified_decision,
                   queried_type, cache_duration, client_request, serveVars,
                   policyVars, versionVars,
                   privVars, domainVars, statsVars>>

NextDate == LastModifiedOfFile

SpecDate == InitDate /\ [][NextDate]_vars

-----------------------------------------------------------------------------
(* sanitize_path_with_root under extension policies: allow-lists and       *)
(* block-lists as a SecurityConfig may hold them.                          *)

PolicyConfigs ==
    { [document_root |-> DefaultRoot, follow_symlinks |-> f, max_file_size |-> 100,
       allowed_extensions |-> a, blocked_extensions |-> b] :
      f \in BOOLEAN,
      a \in { {}, { <<"html">> }, { <<"css">>, <<"htm">> } },
      b \in { {}, { <<"exe">> }, { <<"EXE">> }, { <<"css">> } } }

PolicyTargets ==
    { <<"/">>, <<"/", "style", ".", "css">>, <<"/", "notes">>, <<"/", "x", ".", "EXE">>,
      <<"/", "a", "/">> \o IndexHtm, <<"/", "link">>, <<"/", "a">> }

InitExtension ==
    /\ NoResponse
    /\ NoPolicy
    /\ NoVersion
    /\ NoCache
    /\ NoPrivileges
    /\ NoDomainCall
    /\ NoStats
    /\ config \in PolicyConfigs
    /\ cwd = <<>>
    /\ pc = "idle"
    /\ request = [path |-> <<>>, domain |-> NoDomain]
    /\ document_root = NoPath
    /\ file_path = NoPath
    /\ sanitized = "none"
    /\ result = Pending
    /\ via = "none"
    /\ served = ENOENT
    /\ fsops = <<>>

\* sanitize_path(request_path): sanitize_path_with_root with the configured root
SanitizeUnderPolicy ==
    /\ pc = "idle"
    /\ \E path \in PolicyTargets :
          \E r \in { sanitize_path_with_root(config, path, config.document_root, cwd) } :
              /\ request' = [path |-> path, domain |-> NoDomain]
              /\ document_root' = config.document_root
              /\ file_path' = r.path
              /\ sanitized' = IF r.ok THEN "Ok" ELSE "Err"
              /\ fsops' = r.ops
    /\ pc' = "done"
    /\ UNCHANGED <<config, cwd, result, via, served, notServeVars>>

NextExtension == SanitizeUnderPolicy

SpecExtension == InitExtension /\ [][NextExtension]_vars

-----------------------------------------------------------------------------
(* is_domain_safe and get_domain_document_root on Host values.  A domain   *)
(* is a sequence of characters.                                            *)

MaxDomainLen == 5

DomainChars == { "a", "b", ".", "/", "-" }

\* Every string over DomainChars of at most MaxDomainLen characters
HostNames == UNION { [1..n -> DomainChars] : n \in 0..MaxDomainLen }

InitDomain ==
    /\ NoServer
    /\ NoResponse
    /\ NoPolicy
    /\ NoVersion
    /\ NoCache
    /\ NoPrivileges
    /\ NoStats
    /\ NoDomainCall

IsDomainSafe ==
    /\ host = <<>> /\ host_safe = <<>> /\ host_root = NoPath
    /\ \E domain \in HostNames :
          /\ host' = domain
          /\ host_safe' = <<is_domain_safe(domain)>>
    /\ UNCHANGED <<host_root, notDomainVars>>

GetDomainDocumentRoot ==
    /\ host = <<>> /\ host_safe = <<>> /\ host_root = NoPath
    /\ \E domain \in HostNames :
          /\ host' = domain
          /\ host_root' = get_domain_document_root(config, domain, cwd).root
    /\ UNCHANGED <<host_safe, notDomainVars>>

NextDomain ==
    \/ IsDomainSafe
    \/ GetDomainDocumentRoot

SpecDomain == InitDomain /\ [][NextDomain]_vars

\* ---------------------------------------------------------------------
\* hourly_stats.rs: HourlyStatsCollector
\* ---------------------------------------------------------------------

HOUR == 3600
WINDOW == 48 * HOUR

\* SystemTime::now() when the collector is constructed
StartTime == 1700000000

\* The requests recorded and the steps of the clock in one behaviour
MaxRequests == 3
MaxTicks == 3

\* The clock moves on by half an hour, or by more than the window
TickSizes == { HOUR \div 2, WINDOW + HOUR }

\* What reading /proc/meminfo and /proc/stat can give: a value, or Err
SystemStats == { <<"Err">>, <<"Ok", 512>> }

\* HourlyStatsCollector::new with no data file: no entry, no request
InitStats ==
    /\ NoServer
    /\ NoResponse
    /\ NoPolicy
    /\ NoVersion
    /\ NoCache
    /\ NoPrivileges
    /\ NoDomainCall
    /\ stats = <<>>
    /\ current_hour_requests = 0
    /\ clock = StartTime
    /\ recorded = <<>>
    /\ collector = IdleCollector("none")

\* Time passes
Tick ==
    /\ clock < StartTime + MaxTicks * (HOUR \div 2)
    /\ \E d \in TickSizes : clock' = clock + d
    /\ UNCHANGED <<stats, current_hour_requests, recorded, collector, notStatsVars>>

\* record_request, from any request handler; recorded keeps the time of the call
RecordRequest ==
    /\ Len(recorded) < MaxRequests
    /\ current_hour_requests' = current_hour_requests + 1
    /\ recorded' = Append(recorded, clock)
    /\ UNCHANGED <<stats, clock, collector, notStatsVars>>

\* collect_current_stats: the time is read and rounded down to the hour
CollectReadTime ==
    /\ collector.pc = "idle"
    /\ collector' = [collector EXCEPT !.pc = "count", !.result = "none",
                                      !.current_hour = (clock \div HOUR) * HOUR]
    /\ UNCHANGED <<stats, current_hour_requests, clock, recorded, notStatsVars>>

\* collect_current_stats: under the counter's lock the count is taken and reset
CollectTakeCount ==
    /\ collector.pc = "count"
    /\ collector' = [collector EXCEPT !.pc = "system",
                                      !.request_count = current_hour_requests]
    /\ current_hour_requests' = 0
    /\ UNCHANGED <<stats, clock, recorded, notStatsVars>>

\* collect_current_stats: get_memory_usage()? and get_cpu_usage()?
CollectSystemStats ==
    /\ collector.pc = "system"
    /\ \E memory \in SystemStats, cpu \in SystemStats :
          collector' = IF memory[1] = "Err" \/ cpu[1] = "Err"
                       THEN IdleCollector("Err")
                       ELSE [collector EXCEPT !.pc = "store", !.memory_used_mb = memory[2]]
    /\ UNCHANGED <<stats, current_hour_requests, clock, recorded, notStatsVars>>

RECURSIVE DropOlder(_, _)
\* `while let Some(front) = stats.front()`: pop while older than the cutoff
DropOlder(entries, cutoff_time) ==
    IF entries # <<>> /\ Head(entries).timestamp < cutoff_time
    THEN DropOlder(Tail(entries), cutoff_time)
    ELSE entries

\* The block under the lock of stats: old entries go, and the new one
\* replaces the last entry when that is of the same hour
store_stats(entries, new_stats) ==
    LET kept == DropOlder(entries, new_stats.timestamp - WINDOW) IN
    IF kept # <<>> /\ kept[Len(kept)].timestamp = new_stats.timestamp
    THEN [kept EXCEPT ![Len(kept)] = new_stats]
    ELSE Append(kept, new_stats)

\* collect_current_stats: the new entry is made and stored
CollectStore ==
    /\ collector.pc = "store"
    /\ stats' = store_stats(stats, [timestamp |-> collector.current_hour,
                                     memory_used_mb |-> collector.memory_used_mb,
                                     request_count |-> collector.request_count])
    /\ collector' = [collector EXCEPT !.pc = "save"]
    /\ UNCHANGED <<current_hour_requests, clock, recorded, notStatsVars>>

\* collect_current_stats: save_stats()?, then Ok(())
CollectSave ==
    /\ collector.pc = "save"
    /\ \E returned \in {"Ok", "Err"} : collector' = IdleCollector(returned)
    /\ UNCHANGED <<stats, current_hour_requests, clock, recorded, notStatsVars>>

NextStats ==
    \/ Tick
    \/ RecordRequest
    \/ CollectReadTime
    \/ CollectTakeCount
    \/ CollectSystemStats
    \/ CollectStore
    \/ CollectSave

\* Request handlers recording requests while the hourly task collects
SpecStats == InitStats /\ [][NextStats]_vars

-----------------------------------------------------------------------------
(* What the claims say about request targets, stated on the target itself. *)

\* The path of a request target: what precedes the query and the fragment
PathPart(t) == BeforeFirst(BeforeFirst(t, "?"), "#")

\* The target's path as the client means it, escapes of '.' and '/' resolved
Meant(t) ==
    [i \in 1..Len(PathPart(t)) |->
        IF PathPart(t)[i] = "%2e" THEN "."
        ELSE IF PathPart(t)[i] = "%2f" THEN "/" ELSE PathPart(t)[i]]

\* Some path component is '..' or holds '..', raw or percent-encoded
HasDotDot(t) == \E i \in 1..(Len(Meant(t)) - 1) : Meant(t)[i] = "." /\ Meant(t)[i + 1] = "."

\* Some path component begins with '.'
HasDotLedComponent(t) ==
    \E i \in 1..Len(Meant(t)) :
        Meant(t)[i] = "." /\ (i = 1 \/ Meant(t)[i - 1] = "/")

\* Some path component begins with '.' and is not the single-dot component
HasHiddenComponent(t) ==
    \E i \in 1..Len(Meant(t)) :
        /\ Meant(t)[i] = "." /\ (i = 1 \/ Meant(t)[i - 1] = "/")
        /\ i < Len(Meant(t)) /\ Meant(t)[i + 1] # "/"

\* A real path strictly below the directory `root`
Descendant(real, root) ==
    /\ real # ENOENT
    /\ Len(real) > Len(root.comps)
    /\ SubSeq(real, 1, Len(root.comps)) = root.comps

-----------------------------------------------------------------------------
(* The claims.                                                             *)

\* C1: serve_file_with_domain returns file contents only for a file that is a
\* descendant of the selected document root, on the directory-index branch
\* too; a target naming a location outside the root yields Ok(None).
C1_ServedInsideRoot ==
    (pc = "done" /\ via \in {"index", "file"}) => Descendant(served, document_root)

\* C2: sanitize_path_with_root returns Err for every target with a '..'
\* component (raw, percent-encoded, or '..' inside a component), and every
\* path it returns Ok starts with the document root and has no '..' component.
C2_TraversalRejected ==
    sanitized # "none" =>
        /\ HasDotDot(request.path) => sanitized = "Err"
        /\ sanitized = "Ok" =>
              /\ PathStartsWith(file_path, document_root)
              /\ \A i \in 1..Len(file_path.comps) : file_path.comps[i] # DotDot

\* A target whose '..' component is percent-encoded was rejected
C2_Witness ==
    /\ pc = "done"
    /\ sanitized = "Err"
    /\ request.path = <<"/", "a", "/", "%2e", "%2e">>

\* C3: for a target with a '..' component, no filesystem operation on a path
\* built from the target precedes the rejection.
C3_RejectBeforeFsAccess ==
    HasDotDot(request.path) =>
        \A i \in 1..Len(fsops) : ~fsops[i].from_target

\* C4: every rejected request has the outcome Ok(None); a target that violates
\* a path-security rule never gets a redirect or content.
C4_UniformRejection ==
    (pc = "done" /\ (HasDotDot(request.path) \/ HasHiddenComponent(request.path)))
        => result = None

-----------------------------------------------------------------------------
(* What the claims say about encoded responses, read back from the wire.   *)

\* Where the first empty line of w starts: the first CR LF CR LF
HeadEnd(w) ==
    IF \E i \in 1..(Len(w) - 3) : SubSeq(w, i, i + 3) = CRLF \o CRLF
    THEN CHOOSE i \in 1..(Len(w) - 3) :
            /\ SubSeq(w, i, i + 3) = CRLF \o CRLF
            /\ \A j \in 1..(i - 1) : SubSeq(w, j, j + 3) # CRLF \o CRLF
    ELSE Len(w) + 1

RECURSIVE LinesOf(_)
\* The CR LF separated lines of a head
LinesOf(h) ==
    IF \E i \in 1..(Len(h) - 1) : h[i] = "\r" /\ h[i + 1] = "\n"
    THEN LET i == CHOOSE k \in 1..(Len(h) - 1) :
                      /\ h[k] = "\r" /\ h[k + 1] = "\n"
                      /\ \A j \in 1..(k - 1) : ~(h[j] = "\r" /\ h[j + 1] = "\n")
         IN  <<SubSeq(h, 1, i - 1)>> \o LinesOf(SubSeq(h, i + 2, Len(h)))
    ELSE <<h>>

WireStatusLine(w) == LinesOf(SubSeq(w, 1, HeadEnd(w) - 1))[1]
WireHeaderLines(w) == Tail(LinesOf(SubSeq(w, 1, HeadEnd(w) - 1)))
WireBody(w) == SubSeq(w, HeadEnd(w) + 4, Len(w))

IsConnectionLine(line) == Len(line) > 0 /\ line[1] = "Connection"

Encoded10or11 == encoded_as.version \in {"Http10", "Http11"}

\* The connection directive the version and keep_alive call for, if any
ExpectedDirective ==
    IF encoded_as.version = "Http11" /\ ~encoded_as.keep_alive
    THEN << <<"Connection", ":", " ", "close">> >>
    ELSE IF encoded_as.version = "Http10" /\ encoded_as.keep_alive
    THEN << <<"Connection", ":", " ", "Keep-Alive">> >>
    ELSE <<>>

\* a and b are the same letter, in whatever case
SameLetter(a, b) ==
    \/ a = b
    \/ \E k \in 1..Len(UpperLetters) : {a, b} = {UpperLetters[k], LowerLetters[k]}

\* s contains pat, ignoring case
ContainsIgnoringCase(s, pat) ==
    \E i \in 1..(Len(s) - Len(pat) + 1) :
        \A j \in 1..Len(pat) : SameLetter(s[i + j - 1], pat[j])

-----------------------------------------------------------------------------
(* The claims about HttpResponse and ConnectionPolicy.                     *)

\* C6: whatever headers were set, the output of encode for Http11 has a
\* Connection header line iff keep_alive is false, and it is
\* 'Connection: close'; for Http10 it has one iff keep_alive is true, and it
\* is 'Connection: Keep-Alive'.
C6_ConnectionLineIffDirective ==
    Encoded10or11 =>
        LET lines == WireHeaderLines(wire)
            conn == { i \in 1..Len(lines) : IsConnectionLine(lines[i]) }
        IN  /\ conn # {} <=> ExpectedDirective # <<>>
            /\ \A i \in conn : lines[i] = ExpectedDirective[1]

\* C7: encode emits the header lines in the order in which the headers were
\* set: the header set first comes first on the wire, so set_content_type
\* then set_content_length yields Content-Type before Content-Length.
C7_FirstSetComesFirst ==
    (Encoded10or11 /\ first_set # "") =>
        WireHeaderLines(wire)[1][1] = first_set

\* C8: for Http10 and Http11 the output of encode is the status line, one
\* 'Name: Value' line for each entry of the header map and no other header
\* line except the connection directive, an empty line, and the body
\* unchanged.
C8_WireLayout ==
    Encoded10or11 =>
        LET lines == WireHeaderLines(wire)
            n == Cardinality(DOMAIN resp.headers)
        IN  /\ WireStatusLine(wire) =
                  << (IF encoded_as.version = "Http10" THEN "HTTP/1.0"
                      ELSE "HTTP/1.1"), " " >>
                  \o ToDigits(resp.status_code) \o <<" ", resp.status_text>>
            /\ Len(lines) = n + Len(ExpectedDirective)
            /\ \A name \in DOMAIN resp.headers :
                  \E i \in 1..n : lines[i] = <<name, ":", " ">> \o resp.headers[name]
            /\ SubSeq(lines, n + 1, Len(lines)) = ExpectedDirective
            /\ WireBody(wire) = resp.body

\* A response with two headers or more and a body that holds an empty line
\* was encoded with a connection directive
C8_Witness ==
    /\ Encoded10or11
    /\ ExpectedDirective # <<>>
    /\ Cardinality(DOMAIN resp.headers) >= 2
    /\ resp.body = Binary

\* C9: encode for Http09 returns exactly the body bytes, whatever status and
\* headers were set and for both values of keep_alive.
C9_Http09BodyOnly ==
    encoded_as.version = "Http09" => wire = resp.body

\* A response with headers and a body was encoded for Http09, keep_alive set
C9_Witness ==
    /\ encoded_as.version = "Http09"
    /\ encoded_as.keep_alive
    /\ resp.body = HelloWorld
    /\ "Content-Type" \in DOMAIN resp.headers
    /\ wire = HelloWorld

\* C10: should_keep_alive is true iff fewer than max_requests requests were
\* served, the response is at most 10 MiB (10 MiB exactly allowed), and the
\* version rule holds: Http09 never, Http10 only with a Connection header
\* containing 'keep-alive' ignoring case, Http11 unless a Connection header
\* contains 'close' ignoring case.
C10_KeepAliveRule ==
    call.version # "none" =>
        (keep_alive_decision <=>
            /\ call.request_count < policy.max_requests
            /\ call.response_size <= 10485760
            /\ \/ /\ call.version = "Http10"
                  /\ call.request_connection_header.some
                  /\ ContainsIgnoringCase(call.request_connection_header.value,
                                          KeepAliveLower)
               \/ /\ call.version = "Http11"
                  /\ ~(/\ call.request_connection_header.some
                       /\ ContainsIgnoringCase(call.request_connection_header.value,
                                               CloseLower)))

\* A response of 10 MiB exactly on an Http10 connection that asked for
\* Keep-Alive is kept alive
C10_Witness ==
    /\ call.version = "Http10"
    /\ call.response_size = 10485760
    /\ call.request_connection_header = SomeHeader(KeepAliveMixed)
    /\ call.request_count = 4
    /\ keep_alive_decision

\* C11: on a connection whose transport passes the number of requests
\* handled before the current one and closes as soon as should_keep_alive
\* returns false, at most max_requests requests are served.
C11_AtMostMaxRequests ==
    connection.requests_handled <= policy.max_requests

\* C12: from_request_line returns Http11 iff the version token is
\* 'HTTP/1.1', Http10 iff it is 'HTTP/1.0', and Http09 for any other or
\* missing token, whatever the method and the request target hold.
C12_VersionFromTokenOnly ==
    http_version # "none" =>
        http_version = (IF request_line.version_token = Http11Token THEN "Http11"
                        ELSE IF request_line.version_token = Http10Token THEN "Http10"
                        ELSE "Http09")

-----------------------------------------------------------------------------
(* The claims about file_cache.                                            *)

\* s without the double quotes around it
StripQuotes(s) ==
    LET inner == { i \in 1..Len(s) : s[i] # "\"" } IN
    IF inner = {} THEN <<>>
    ELSE SubSeq(s, CHOOSE i \in inner : \A j \in inner : i <= j,
                   CHOOSE i \in inner : \A j \in inner : i >= j)

RECURSIVE ValueFrom(_, _)
\* The number read digit by digit from the left, acc being read so far
ValueFrom(acc, ds) ==
    IF ds = <<>> THEN acc
    ELSE ValueFrom(acc * 10 + (CHOOSE d \in 0..9 : ToDigits(d) = <<Head(ds)>>), Tail(ds))

\* The text of an unsigned integer as u64's FromStr reads it: one digit or
\* more, optionally after a '+'
UnsignedText(s) ==
    LET ds == IF s # <<>> /\ s[1] = "+" THEN Tail(s) ELSE s IN
    /\ ds # <<>>
    /\ \A i \in 1..Len(ds) : \E d \in 0..9 : ToDigits(d) = <<ds[i]>>

UnsignedValue(s) == ValueFrom(0, IF s[1] = "+" THEN Tail(s) ELSE s)

\* C13: should_return_not_modified is true iff If-None-Match is present and
\* equals the ETag once the surrounding double quotes are stripped from
\* both, or If-Modified-Since is present, parses as an unsigned integer and
\* is >= last_modified.
C13_NotModifiedRule ==
    not_modified_decision # <<>> =>
        (not_modified_decision[1] <=>
            \/ /\ conditional.if_none_match.some
               /\ StripQuotes(conditional.if_none_match.value)
                    = StripQuotes(cache_info.etag)
            \/ /\ conditional.if_modified_since.some
               /\ UnsignedText(conditional.if_modified_since.value)
               /\ UnsignedValue(conditional.if_modified_since.value)
                    >= cache_info.last_modified)

\* The ETag differs and If-Modified-Since equals last_modified: not modified
C13_Witness ==
    /\ not_modified_decision = <<TRUE>>
    /\ conditional.if_none_match = SomeHeader(<<"\"", "a", "b", "c", "\"">>)
    /\ conditional.if_modified_since = SomeHeader(ToDigits(1234567890))
    /\ cache_info.last_modified = 1234567890

\* C14: the ETag of from_metadata is '"<mtime>-<size>"', and two files have
\* equal ETags iff they have equal last_modified and equal size.
C14_EtagInjective ==
    cache_info # NoInfo =>
        /\ LET parts == SplitOn(StripQuotes(cache_info.etag), "-") IN
              /\ cache_info.etag[1] = "\"" /\ cache_info.etag[Len(cache_info.etag)] = "\""
              /\ Len(parts) = 2
              /\ UnsignedText(parts[1]) /\ UnsignedValue(parts[1]) = cache_info.last_modified
              /\ UnsignedText(parts[2]) /\ UnsignedValue(parts[2]) = cache_info.size
        /\ cache_info.etag = other_info.etag
              <=> /\ cache_info.last_modified = other_info.last_modified
                  /\ cache_info.size = other_info.size

\* Two files whose times and sizes have the same digits, split differently
C14_Witness ==
    /\ cache_info.last_modified = 1 /\ cache_info.size = 23
    /\ other_info.last_modified = 12 /\ other_info.size = 3
    /\ cache_info.etag # other_info.etag

\* The media type of a content type: what precedes the parameters
MediaType(t) == IF t # <<>> /\ t[Len(t)] = Charset[1] THEN SubSeq(t, 1, Len(t) - 1) ELSE t

\* The media types by kind, as the MIME table and the registry name them
OneYearTypes ==
    { <<"image/", x>> : x \in {"jpeg", "png", "gif", "svg+xml", "webp", "x-icon", "bmp"} }
    \cup { <<"font/", x>> : x \in {"woff", "woff2", "ttf", "otf"} }
    \cup { <<"text/", "css">>, <<"application/", "javascript">>,
           <<"application/", "font-", "woff">> }
OneDayTypes ==
    { <<"application/", x>> : x \in {"zip", "x-tar", "gzip", "octet-stream"} }
OneHourTypes ==
    { <<"text/", "html">>, <<"application/", "json">>, <<"application/", "xml">>,
      <<"text/", "xml">> }

CacheControlFor(d) ==
    IF d = -1 THEN <<"public, max-age=">> \o ToDigits(31536000) \o <<", immutable">>
    ELSE IF d = 0 THEN <<"no-cache, no-store, must-revalidate">>
    ELSE IF d > 0 THEN <<"public, max-age=">> \o ToDigits(d)
    ELSE <<"no-cache">>

\* C15: the Cache-Control header of the response built by
\* generate_http_response_with_version is the encoding of the duration that
\* get_cache_duration assigns to the file's content type.
C15_CacheControlFromDuration ==
    (sanitized = "Ok" /\ Encoded10or11) =>
        \E i \in 1..Len(WireHeaderLines(wire)) :
            WireHeaderLines(wire)[i] =
                <<"Cache-Control", ":", " ">>
                \o CacheControlFor(get_cache_duration(resp.headers["Content-Type"]))


\* The headers add_caching_headers is documented to set
CachingHeaderNames == {"Last-Modified", "ETag", "Cache-Control"}

\* What add_caching_headers(last_modified, etag, d) must have done in a step
CachingHeadersSet(d) ==
    /\ resp'.status_code = resp.status_code
    /\ resp'.status_text = resp.status_text
    /\ resp'.body = resp.body
    /\ DOMAIN resp'.headers = (DOMAIN resp.headers) \cup CachingHeaderNames
    /\ resp'.headers["Last-Modified"] = LastModifiedValue
    /\ resp'.headers["ETag"] = EtagValue
    /\ resp'.headers["Cache-Control"] = CacheControlFor(d)
    /\ \A k \in (DOMAIN resp.headers) \ CachingHeaderNames :
          resp'.headers[k] = resp.headers[k]

\* C17: add_caching_headers(last_modified, etag, d) sets Last-Modified and ETag
\* to the given values and Cache-Control by d (-1 immutable one year, 0
\* no-cache/no-store/must-revalidate, d > 0 max-age=d, other negatives
\* no-cache), replacing a previous Cache-Control; the status, the body and
\* every other header are unchanged.
C17_CachingHeaders ==
    [][\A d \in CacheDurations : AddCachingHeadersWith(d) => CachingHeadersSet(d)]_vars

\* A Cache-Control set first by set_cache_control, then replaced by the
\* immutable one-year value
C17_Witness ==
    /\ first_set = "Cache-Control"
    /\ "Cache-Control" \in DOMAIN resp.headers
    /\ resp.headers["Cache-Control"] = CacheControlFor(-1)
    /\ "X-Custom" \in DOMAIN resp.headers


\* The target, resolved under the path-security rules, is an existing
\* directory inside the root selected for the domain
SecureDirectory(t, domain) ==
    LET root == SelectRoot(config, domain, cwd).root
        real == RealPath(Join(root, Meant(t)), cwd)
    IN  /\ ~HasDotDot(t)
        /\ ~HasHiddenComponent(t)
        /\ real # ENOENT
        /\ Lookup(real).kind = "dir"
        /\ real = RealPath(root, cwd) \/ Descendant(real, root)

\* C18: serve_file_with_domain returns a redirect iff the target does not end
\* in '/' and, resolved under the path-security rules, is an existing
\* directory inside the selected root; the redirect is a 301 encoded by
\* HttpResponse::encode with Location = target + '/' and an empty body.
C18_RedirectIffSecureDirectory ==
    pc = "done" =>
        /\ via = "redirect" <=>
              /\ ~EndsWith(request.path, "/")
              /\ SecureDirectory(request.path, request.domain)
        /\ via = "redirect" =>
              /\ result.tag = "Some"
              /\ WireStatusLine(result.bytes) =
                    <<"HTTP/1.1", " ">> \o ToDigits(301) \o <<" ", "Moved Permanently">>
              /\ \E i \in 1..Len(WireHeaderLines(result.bytes)) :
                    WireHeaderLines(result.bytes)[i] =
                        <<"Location", ":", " ">> \o request.path \o <<"/">>
              /\ WireBody(result.bytes) = <<>>


-----------------------------------------------------------------------------
(* The claims about drop_privileges.                                       *)

\* The calls of `name` made so far
CallsOf(name) == { i \in 1..Len(syscalls) : syscalls[i].call = name }

\* C19: drop_privileges sets the group ID before the user ID: setuid is never
\* called before setgid has succeeded, a setgid failure returns Err without
\* calling setuid, and after both calls the IDs are read back and any
\* difference from the requested uid or gid returns Err.
C19_GroupBeforeUser ==
    /\ \A i \in CallsOf("setuid") :
          \E j \in CallsOf("setgid") : j < i /\ syscalls[j].ret = 0
    /\ (\E j \in CallsOf("setgid") : syscalls[j].ret # 0) =>
          /\ drop_result = "Err"
          /\ CallsOf("setuid") = {}
    /\ ( /\ drop_pc = "done"
         /\ \E i \in CallsOf("setuid") : syscalls[i].ret = 0
         /\ process.ruid # drop_to.uid[1] \/ process.rgid # drop_to.gid[1] )
          => drop_result = "Err"

\* Both calls succeeded for a set-ID program, the real group ID read back
\* was not the requested one, and Err was returned
C19_Witness ==
    /\ drop_pc = "done"
    /\ Len(syscalls) = 2
    /\ syscalls[1] = Syscall("setgid", 1001, 0)
    /\ syscalls[2] = Syscall("setuid", 1000, 0)
    /\ process.ruid = 1000 /\ process.rgid = 1000
    /\ drop_result = "Err"

\* C20: when a privilege drop was requested (drop_to_uid or drop_to_gid is set)
\* and drop_privileges returns Ok, the process's user ID equals drop_to_uid
\* and its group ID equals drop_to_gid, for each one that was set.
C20_OkMeansDropped ==
    drop_result = "Ok" =>
        /\ drop_to.uid # <<>> =>
              process.ruid = drop_to.uid[1] /\ process.euid = drop_to.uid[1]
        /\ drop_to.gid # <<>> =>
              process.rgid = drop_to.gid[1] /\ process.egid = drop_to.gid[1]


-----------------------------------------------------------------------------
(* The claims about the extension policy, domains and index files.         *)

\* `ext` is listed in `list`, letter case ignored
ListedIgnoringCase(ext, list) ==
    ext # NoExt /\ \E e \in list : ToLowercase(e) = ToLowercase(ext)

\* C21: no path returned Ok by sanitize_path_with_root has an extension
\* (compared case-insensitively) listed in blocked_extensions, and when
\* allowed_extensions is non-empty every path returned Ok has an extension
\* that is a member of allowed_extensions.
C21_ExtensionPolicy ==
    sanitized = "Ok" =>
        /\ ~ListedIgnoringCase(Extension(file_path), config.blocked_extensions)
        /\ config.allowed_extensions # {} =>
              ListedIgnoringCase(Extension(file_path), config.allowed_extensions)


\* The domain rule: alphanumeric or '.', at least one '.', no '.' first or
\* last, no two '.' in a row
DomainRule(d) ==
    /\ \A i \in 1..Len(d) : d[i] \in {"a", "b", "."}
    /\ \E i \in 1..Len(d) : d[i] = "."
    /\ d[1] # "." /\ d[Len(d)] # "."
    /\ \A i \in 1..(Len(d) - 1) : ~(d[i] = "." /\ d[i + 1] = ".")

\* C22: is_domain_safe(d) is true iff every character of d is alphanumeric or
\* '.', d contains at least one '.', d neither starts nor ends with '.', and
\* d contains no '..'.
C22_DomainSafeRule ==
    host_safe # <<>> => (host_safe[1] <=> DomainRule(host))

\* 'a.b' was found safe
C22_Witness ==
    /\ host = <<"a", ".", "b">>
    /\ host_safe = <<TRUE>>

\* C23: get_domain_document_root returns the default document root or
\* '<per-domain-root>/<domain>', the latter only when the domain is safe and
\* that path is an existing directory: a direct child of the per-domain root.
C23_DomainRootSelection ==
    host_root # NoPath =>
        \/ host_root = config.document_root
        \/ /\ DomainRule(host)
           /\ host_root = [abs |-> TRUE, comps |-> Append(PerDomainRoot.comps, host)]
           /\ Lookup(RealPath(host_root, cwd)).kind = "dir"

\* The directory of the domain 'a.b' was selected
C23_Witness ==
    /\ host = <<"a", ".", "b">>
    /\ host_root = [abs |-> TRUE, comps |-> DomainAB]


\* A regular file that passes the size and extension policy
PassesPolicy(p) ==
    /\ IsFile(p, cwd)
    /\ Stat(p, cwd).size <= config.max_file_size
    /\ ~ListedIgnoringCase(Extension(p), config.blocked_extensions)
    /\ config.allowed_extensions # {} =>
          ListedIgnoringCase(Extension(p), config.allowed_extensions)

\* C24: for the root request target '/' and for the empty request target,
\* sanitize_path_with_root resolves to '<document_root>/index.html' and
\* returns it Ok when that file exists and passes the policy checks.
C24_RootServesIndex ==
    ( /\ sanitized # "none"
      /\ request.path \in { <<>>, <<"/">> }
      /\ PassesPolicy(Push(document_root, IndexHtml)) )
        => /\ sanitized = "Ok"
           /\ file_path = Push(document_root, IndexHtml)


-----------------------------------------------------------------------------
(* The claims about dates and bodies.                                      *)

\* The civil date of a day number (days since 1970-01-01), by eras of 400
\* years
CivilDate(days) ==
    LET z == days + 719468
        era == z \div 146097
        doe == z - era * 146097
        yoe == (doe - doe \div 1460 + doe \div 36524 - doe \div 146096) \div 365
        doy == doe - (365 * yoe + yoe \div 4 - yoe \div 100)
        mp == (5 * doy + 2) \div 153
        m == IF mp < 10 THEN mp + 3 ELSE mp - 9
    IN  [year |-> yoe + era * 400 + (IF m <= 2 THEN 1 ELSE 0),
         month |-> m,
         day |-> doy - (153 * mp + 2) \div 5 + 1]

TwoDigits(n) == <<DigitAtom(n \div 10)>> \o <<DigitAtom(n % 10)>>

\* '<Dow>, <DD> <Mon> <YYYY> <HH>:<MM>:<SS> GMT' for t seconds after the epoch
HttpDate(t) ==
    LET c == CivilDate(t \div 86400)
        dow == <<"Thu", "Fri", "Sat", "Sun", "Mon", "Tue", "Wed">>[((t \div 86400) % 7) + 1]
        mon == <<"Jan", "Feb", "Mar", "Apr", "May", "Jun", "Jul", "Aug", "Sep", "Oct",
                 "Nov", "Dec">>[c.month]
    IN  <<dow, ",", " ">> \o TwoDigits(c.day) \o <<" ", mon, " ">> \o ToDigits(c.year)
        \o <<" ">> \o TwoDigits((t % 86400) \div 3600) \o <<":">>
        \o TwoDigits((t % 3600) \div 60) \o <<":">> \o TwoDigits(t % 60)
        \o <<" ", "GMT">>

\* C25: for a file modified at t, the Last-Modified header that
\* generate_http_response_with_version emits is the correct UTC date and time
\* of t (weekday and leap years included) and equals
\* FileCacheInfo::last_modified_http for the same t.
C25_LastModifiedIsTheDate ==
    (cache_info # NoInfo /\ "Last-Modified" \in DOMAIN resp.headers) =>
        /\ resp.headers["Last-Modified"] = HttpDate(cache_info.last_modified)
        /\ resp.headers["Last-Modified"] = last_modified_http(cache_info)


\* C26: for every content, bytes that are not valid UTF-8 included, the
\* response returned by generate_http_response_with_version and by
\* generate_simple_http_response_with_version carries the content byte for
\* byte as its body, and its Content-Length equals the number of body bytes
\* in the returned response.
C26_BodyIsTheContent ==
    encoded_as # NotEncoded =>
        IF encoded_as.version = "Http09" THEN wire = resp.body
        ELSE /\ WireBody(wire) = resp.body
             /\ \E i \in 1..Len(WireHeaderLines(wire)) :
                   WireHeaderLines(wire)[i] =
                       <<"Content-Length", ":", " ">> \o ToDigits(Len(WireBody(wire)))


-----------------------------------------------------------------------------
(* The claims about directory indexes, symbolic links and conditional      *)
(* requests.                                                               *)

\* sanitize_path_with_root accepts the target with `name` appended and
\* resolves it to the file at `real`
AcceptedAs(name, real) ==
    LET r == sanitize_path_with_root(config, request.path \o name, document_root, cwd)
    IN  r.ok /\ RealPath(r.path, cwd) = real

\* C27: the directory-index branch of serve_file_with_domain serves only files
\* that sanitize_path_with_root would accept for the same target with
\* 'index.html' or 'index.htm' appended; it tries index.html before index.htm
\* and returns Ok(None) when neither exists.
C27_IndexAsSanitized ==
    pc = "done" =>
        /\ via = "index" =>
              /\ AcceptedAs(IndexHtml, served) \/ AcceptedAs(IndexHtm, served)
              /\ served[Len(served)] = IndexHtm =>
                    ~PathExists(Push(Join(document_root, request.path), IndexHtml), cwd)
        /\ via = "no_index" => result = None


\* C28: whatever follow_symlinks is, every path returned Ok by
\* sanitize_path_with_root designates a file whose real location, symbolic
\* links resolved, is inside the document root.
C28_RealLocationInsideRoot ==
    sanitized = "Ok" => Descendant(RealPath(file_path, cwd), document_root)

\* The file's (last_modified, size) differs from the one the client's ETag
\* was made from
FileChanged ==
    <<other_info.last_modified, other_info.size>> # <<cache_info.last_modified, cache_info.size>>

\* C29: when the client sends back the ETag from_metadata produced, quoted or
\* not, in an If-None-Match header, parse_conditional_headers followed by
\* should_return_not_modified gives true while the file's (last_modified,
\* size) is unchanged, and false once either has changed and no
\* If-Modified-Since header is sent
C29_EtagRoundTrip ==
    client_request # NoClientRequest =>
        /\ conditional.if_none_match.some
        /\ trim_matches(conditional.if_none_match.value, "\"")
              = trim_matches(client_request.etag, "\"")
        /\ client_request.etag = cache_info.etag => not_modified_decision = <<TRUE>>
        /\ ( /\ client_request.etag = other_info.etag
             /\ FileChanged
             /\ client_request.if_modified_since = <<>> )
           => not_modified_decision = <<FALSE>>

\* The client returned the file's ETag without its quotes, after two spaces,
\* and the file was found unchanged
C29_Witness ==
    /\ client_request # NoClientRequest
    /\ ~client_request.quoted
    /\ client_request.space = <<" ", " ">>
    /\ client_request.if_modified_since = <<>>
    /\ client_request.etag = cache_info.etag
    /\ not_modified_decision = <<TRUE>>

RECURSIVE CountedSince(_, _)
\* The sum of request_count over the entries not older than the cutoff
CountedSince(entries, cutoff_time) ==
    IF entries = <<>> THEN 0
    ELSE (IF Head(entries).timestamp >= cutoff_time THEN Head(entries).request_count ELSE 0)
         + CountedSince(Tail(entries), cutoff_time)

\* The start of the 48-hour window at the present time
WindowStart == (clock \div HOUR) * HOUR - WINDOW

\* The record_request calls made inside the window
RecordedInWindow == Cardinality({ i \in 1..Len(recorded) : recorded[i] >= WindowStart })

\* C30: whenever no collection is in progress, the request counts of the
\* stored entries inside the 48-hour window plus the pending counter add up
\* to the number of record_request calls made in that window
C30_EveryRequestCountedOnce ==
    collector.pc = "idle" =>
        CountedSince(stats, WindowStart) + current_hour_requests = RecordedInWindow

====
